---- MODULE Spec2Model ----
(***************************************************************************)
(* A model of the viona virtio-net accelerator (uts/i86pc/io/viona/viona.c)*)
(* One ring of a link is modelled: its lifecycle (ring_init, kick, reset,  *)
(* the worker thread, lease expiry, host-process exit, MAC RX callbacks,   *)
(* zero-copy TX reclamation), the descriptor parser vq_popchain, the TX    *)
(* path viona_tx and the used-ring push operations.                        *)
(***************************************************************************)
EXTENDS Integers, Sequences, FiniteSets, TLC

\* Number of chains the guest publishes on the available ring.
MaxAvail == 2
\* log2 of the largest ring size handed to ring_init.
MaxSizeLog == 1
\* Zero-copy frames the NIC may hold unreleased at one time.
MaxInflight == 2

\* Width of the ring indices (uint16_t vr_cur_aidx, avail_idx, used_idx).
IdxMod == 65536

Pow2(n) == IF n = 0 THEN 1 ELSE IF n = 1 THEN 2 ELSE IF n = 2 THEN 4 ELSE 8

\* Sizes of the rings the model runs (powers of two, as ring_init demands).
RingSizes == {Pow2(k) : k \in 0..MaxSizeLog}

\* Number of rings of a link: l_vrings[VIONA_VQ_MAX], RX at 0 and TX at 1
VIONA_VQ_MAX == 2

VRING_MAX_LEN == 32768

\* ri_qsize values handed to ring_init: the sizes above, the largest legal
\* size, and sizes the ioctl must refuse (0, not a power of two, too large).
\* The largest size is given to the RX ring only: the TX worker counts its
\* transmissions up to vr_size.
QSizes(idx) ==
    RingSizes \cup {0, 3, VRING_MAX_LEN + 16384}
        \cup (IF idx = "RX" THEN {VRING_MAX_LEN} ELSE {})

VARIABLES
    ring,       \* viona_vring_t: the lifecycle fields of the ring
    vr_lock,    \* owner of ring->vr_lock: "free", "worker" or "ctl"
    vr_cv,      \* threads asleep on ring->vr_cv
    wk,         \* the ring worker thread: position and locals
    ctl,        \* the control (ioctl) thread: position, locals, return value
    rxcb,       \* a MAC receive callback in flight
    nic,        \* zero-copy frames held by the NIC and their release
    link,       \* viona_link_t fields
    guest,      \* guest-written ring memory seen by the lifecycle
    proc,       \* the host (bhyve) process
    panic,      \* "none", or the VERIFY / NULL dereference that halted the kernel
    pop,        \* one vq_popchain() call: its locals, the iovec, the ring stats
    tx,         \* viona_tx(): its locals, the viona_desb_t table, frames at the NIC
    used,       \* the used ring in guest memory, vr_u_mutex, the threads pushing
    ss,         \* viona_soft_state_t with its link, both rings, the ioctl threads
    rx          \* one frame on its way through viona_rx_common() to guest buffers

lifeVars == <<ring, vr_lock, vr_cv, wk, ctl, rxcb, nic, link, guest, proc, panic>>

vars == <<ring, vr_lock, vr_cv, wk, ctl, rxcb, nic, link, guest, proc, panic, pop, tx, used,
          ss, rx>>

----------------------------------------------------------------------------
(* Helpers of the lifecycle *)

VRS_RESET == "RESET"
VRS_SETUP == "SETUP"
VRS_INIT  == "INIT"
VRS_RUN   == "RUN"

VRSF_REQ_START == "REQ_START"
VRSF_REQ_STOP  == "REQ_STOP"
VRSF_RENEW     == "RENEW"

\* VRING_NEED_BAIL(ring, p)
VRING_NEED_BAIL == VRSF_REQ_STOP \in ring.vr_state_flags \/ proc.exiting

\* vmm_drv_lease_expired(ring->vr_lease)
LeaseExpired == ring.vr_lease = "expired"

\* viona_vr_num_avail(): (avail_idx - cur_aidx) as an unsigned 16-bit value
viona_vr_num_avail == (guest.avail_idx - ring.vr_cur_aidx + IdxMod) % IdxMod

\* viona_ring_lease_drop(): unmap the ring and break the lease, if one is held
viona_ring_lease_drop(r) ==
    IF r.vr_lease # "NULL"
    THEN [r EXCEPT !.vr_lease = "NULL", !.mapped = FALSE]
    ELSE r

\* viona_ring_misc_free(): free the TX reclamation descriptors and the iovec
viona_ring_misc_free(r) == [r EXCEPT !.vr_txdesb = FALSE, !.vr_txiov = FALSE]

\* cv_wait_sig() does not sleep once the process is exiting
CvWaitSigSleeps == ~proc.exiting

SigWaitPcs == {"init_wait", "rx_wait", "tx_wait"}

\* vq_popchain() before its first call on a ring: locals unset, stats zeroed
StatNames == {"ndesc_too_high", "bad_idx", "desc_bad_len", "bad_ring_addr",
              "indir_bad_len", "indir_bad_nest", "indir_bad_next",
              "too_many_desc"}

NoDesc == [flags |-> {}, len |-> 0, next |-> 0]

PopIdle ==
    [pc |-> "idle", niov |-> 1, ndesc |-> 0, lay |-> "same", head |-> 0,
     next |-> 0, i |-> 0, vdir |-> NoDesc, vp |-> NoDesc, nindir |-> 0,
     buf |-> "unset",
     iov |-> << >>, oob |-> FALSE, ret |-> 0, cookie |-> 0,
     stats |-> [n \in StatNames |-> 0],
     aidx0 |-> 0, stats0 |-> [n \in StatNames |-> 0], reads |-> 0]

\* viona_tx() before its first call: no chain popped, no desb table
TxIdle ==
    [pc |-> "idle", last |-> "none", chains |-> 0, chain |-> 0, cookie |-> 0,
     n |-> 0, lens |-> << >>, len |-> 0, i |-> 0, base_off |-> 0,
     held |-> 0, dp |-> FALSE,
     desb |-> << >>, nicq |-> << >>,
     nicpc |-> "idle", nicdone |-> [cookie |-> 0, chain |-> 0, len |-> 0],
     cookies |-> << >>, segs |-> << >>, ulog |-> << >>, mac |-> << >>,
     bcast |-> 0]

\* The threads that push to the used ring at the same time: the TX worker
\* and a NIC completion, or two RX callbacks
Pushers == {"p1", "p2"}

PusherIdle ==
    [pc |-> "idle", variant |-> "plain", k |-> 0, elems |-> << >>,
     old |-> 0, uidx |-> 0, i |-> 0, sb |-> {}]

\* The used ring before any push
UsedIdle ==
    [idx |-> 0, ring |-> << >>, mutex |-> "free",
     pu |-> [p \in Pushers |-> PusherIdle], start |-> 0, plog |-> << >>]

\* The control thread in userland, between two ioctls
\* (at: the ring as viona_ioc_delete() found it, kept for the record)
CtlIdle ==
    [pc |-> "idle", heed |-> FALSE, op |-> "none", err |-> "none",
     at |-> "none"]

\* The control thread returns err from the ioctl op
Return(op, err) == [CtlIdle EXCEPT !.pc = "ret", !.op = op, !.err = err]

\* An ioctl thread in userland
ThrIdle == [pc |-> "idle", op |-> "none", err |-> "none", k |-> 0, val |-> {}]

Threads == {"t1", "t2"}

\* A minor that was opened and has no link yet
SsIdle ==
    [ss_lock |-> "free", ss_link |-> "NULL",
     thr |-> [t \in Threads |-> ThrIdle], masks |-> {}]

\* No frame being received
RxIdle == [pc |-> "idle"]

\* A step of the ring lifecycle: the kernel has not halted; the details of
\* parsing, transmitting and pushing a chain are not part of it
LifeStep == panic = "none" /\ UNCHANGED <<pop, tx, used, ss, rx>>

----------------------------------------------------------------------------
(* Initial state: a link just created, its ring allocated and in RESET *)

InitRing(idx) ==
    [idx |-> idx, vr_state |-> VRS_RESET, vr_state_flags |-> {},
     vr_xfer_outstanding |-> 0, vr_worker_thread |-> FALSE,
     vr_lease |-> "NULL", mapped |-> FALSE,
     vr_txdesb |-> FALSE, vr_txiov |-> FALSE,
     vr_cur_aidx |-> 0, vr_size |-> 0, vr_mask |-> 0]

InitLife ==
    /\ \E idx \in {"RX", "TX"} : ring = InitRing(idx)
    /\ vr_lock = "free"
    /\ vr_cv = {}
    /\ wk = [pc |-> "none", bail |-> FALSE, renew |-> FALSE, ntx |-> 0, ret |-> "init"]
    /\ ctl = CtlIdle
    /\ rxcb = [pc |-> "idle"]
    /\ nic = [inflight |-> 0, pc |-> "idle"]
    /\ \E fc \in BOOLEAN : link = [l_destroyed |-> FALSE, l_force_tx_copy |-> fc,
                                  l_notify_ioport |-> FALSE]
    /\ guest = [avail_idx |-> 0, used_flags |-> {}]
    /\ proc = [exiting |-> FALSE]
    /\ panic = "none"
    /\ pop = PopIdle
    /\ ss = SsIdle
    /\ rx = RxIdle
    /\ tx = TxIdle
    /\ used = UsedIdle

----------------------------------------------------------------------------
(* Control operations: ioctls are serialised by ss_lock, so one control     *)
(* thread performs them one at a time; the ioport hook kicks concurrently.  *)

Broadcast(doit) == vr_cv' = IF doit THEN {} ELSE vr_cv

\* viona_ioc_ring_init() with vr_lock held, the ring found in RESET.
\* renewOk, mapOk and thrOk are the outcomes of viona_ring_lease_renew(),
\* viona_ring_map() and viona_create_worker().
viona_ioc_ring_init(r, qsz, renewOk, mapOk, thrOk, force_copy) ==
    LET failed(e) ==
            [ring |-> [viona_ring_misc_free(viona_ring_lease_drop(r))
                          EXCEPT !.vr_size = 0, !.vr_mask = 0],
             err |-> e]
        leased == [r EXCEPT !.vr_lease = "valid"]
        sized  == [leased EXCEPT !.vr_size = qsz, !.vr_mask = qsz - 1]
        mapd   == [sized EXCEPT !.mapped = TRUE, !.vr_cur_aidx = 0]
        alloc  == [mapd EXCEPT
                     !.vr_txdesb = (r.idx = "TX" /\ ~force_copy),
                     !.vr_txiov = (r.idx = "TX")]
    IN  IF ~renewOk THEN failed("EBUSY")
        ELSE IF ~mapOk THEN
            [ring |-> [viona_ring_misc_free(viona_ring_lease_drop(sized))
                          EXCEPT !.vr_size = 0, !.vr_mask = 0],
             err |-> "EINVAL"]
        ELSE IF ~thrOk THEN
            [ring |-> [viona_ring_misc_free(viona_ring_lease_drop(alloc))
                          EXCEPT !.vr_size = 0, !.vr_mask = 0],
             err |-> "ENOMEM"]
        ELSE [ring |-> [alloc EXCEPT !.vr_worker_thread = TRUE,
                                     !.vr_state = VRS_SETUP],
              err |-> "0"]

\* The index of the modelled ring, and the indices an ioctl may name: that
\* one, or one past the rings of the link
RingIndex(idx) == IF idx = "RX" THEN 0 ELSE 1

IoctlIndices == {RingIndex(ring.idx), VIONA_VQ_MAX}

\* Contrast for RingInitResult: a size check that lets 0 and 3 through.
qsize_unchecked(qsz) == qsz <= VRING_MAX_LEN

\* 1 << (ffs(q) - 1): the lowest set bit of q
RECURSIVE LowestBit(_)
LowestBit(q) == IF q % 2 = 1 THEN 1 ELSE 2 * LowestBit(q \div 2)

\* "if (qsz == 0 || qsz > VRING_MAX_LEN || (1 << (ffs(qsz) - 1)) != qsz)"
QsizeOk(qsz) == ~(qsz = 0 \/ qsz > VRING_MAX_LEN \/ LowestBit(qsz) # qsz)

\* VNA_IOC_RING_INIT
CtlRingInit ==
    /\ LifeStep
    /\ ctl.pc = "idle" /\ ~link.l_destroyed
    /\ vr_lock = "free"
    /\ \E i \in IoctlIndices, qsz \in QSizes(ring.idx) :
         IF i >= VIONA_VQ_MAX \/ ~QsizeOk(qsz)
         THEN /\ ctl' = Return("ring_init", "EINVAL")
              /\ UNCHANGED <<ring, wk, vr_cv, panic>>
         ELSE IF ring.vr_state # VRS_RESET
         THEN /\ ctl' = Return("ring_init", "EBUSY")
              /\ UNCHANGED <<ring, wk, vr_cv, panic>>
         ELSE /\ \E renewOk, mapOk, thrOk \in BOOLEAN :
                   LET res == viona_ioc_ring_init(ring, qsz, renewOk, mapOk,
                                                  thrOk, link.l_force_tx_copy)
                   IN  /\ ring' = res.ring
                       /\ wk' = IF res.err = "0"
                                THEN [wk EXCEPT !.pc = "start"] ELSE wk
                       /\ Broadcast(res.err = "0")
                       /\ ctl' = Return("ring_init", res.err)
              /\ panic' = IF ring.vr_state_flags # {}
                          THEN "VERIFY vr_state_flags == 0" ELSE panic
    /\ UNCHANGED <<vr_lock, rxcb, nic, link, guest, proc>>

\* Contrast for StateTable: a kick that moved a SETUP or INIT ring to RUN
\* itself instead of asking the worker to do it.
ring_kick_forcing_run(r) ==
    IF r.vr_state \in {VRS_SETUP, VRS_INIT}
    THEN [ring |-> [r EXCEPT !.vr_state = VRS_RUN], bcast |-> TRUE, err |-> "0"]
    ELSE [ring |-> r, bcast |-> r.vr_state = VRS_RUN,
          err |-> IF r.vr_state = VRS_RUN THEN "0" ELSE "EBUSY"]

\* Contrast for KickResult: a kick that refuses a ring in SETUP.
ring_kick_refusing_setup(r) ==
    IF r.vr_state = VRS_INIT
    THEN [ring |-> [r EXCEPT !.vr_state_flags = @ \cup {VRSF_REQ_START}],
          bcast |-> TRUE, err |-> "0"]
    ELSE IF r.vr_state = VRS_RUN
    THEN [ring |-> r, bcast |-> TRUE, err |-> "0"]
    ELSE [ring |-> r, bcast |-> FALSE, err |-> "EBUSY"]

\* viona_ioc_ring_kick(): the switch on vr_state, under vr_lock
viona_ioc_ring_kick(r) ==
    IF r.vr_state \in {VRS_SETUP, VRS_INIT}
    THEN [ring |-> [r EXCEPT !.vr_state_flags = @ \cup {VRSF_REQ_START}],
          bcast |-> TRUE, err |-> "0"]
    ELSE IF r.vr_state = VRS_RUN
    THEN [ring |-> r, bcast |-> TRUE, err |-> "0"]
    ELSE [ring |-> r, bcast |-> FALSE, err |-> "EBUSY"]

\* VNA_IOC_RING_KICK
CtlKick ==
    /\ LifeStep
    /\ ctl.pc = "idle" /\ ~link.l_destroyed
    /\ vr_lock = "free"
    /\ \E i \in IoctlIndices :
         IF i >= VIONA_VQ_MAX
         THEN /\ ctl' = Return("ring_kick", "EINVAL")
              /\ UNCHANGED <<ring, vr_cv>>
         ELSE LET res == viona_ioc_ring_kick(ring)
              IN  /\ ring' = res.ring
                  /\ Broadcast(res.bcast)
                  /\ ctl' = Return("ring_kick", res.err)
    /\ UNCHANGED <<vr_lock, wk, rxcb, nic, link, guest, proc, panic>>

\* viona_notify_wcb(): the guest's write to the queue-notify ioport
NotifyKick ==
    /\ LifeStep
    /\ link.l_notify_ioport
    /\ vr_lock = "free"
    /\ LET res == viona_ioc_ring_kick(ring)
       IN  /\ ring' = res.ring
           /\ Broadcast(res.bcast)
    /\ UNCHANGED <<vr_lock, wk, ctl, rxcb, nic, link, guest, proc, panic>>

\* viona_ioc_set_notify_ioport()
CtlSetNotifyIoport ==
    /\ LifeStep
    /\ ctl.pc = "idle" /\ ~link.l_destroyed
    /\ \E on \in BOOLEAN : link' = [link EXCEPT !.l_notify_ioport = on]
    /\ ctl' = Return("set_notify_ioport", "0")
    /\ UNCHANGED <<ring, vr_lock, vr_cv, wk, rxcb, nic, guest, proc, panic>>

\* Contrast for ResetResult: a reset that requests the stop of a ring
\* already in RESET.
ring_reset_flags_always(r) ==
    [r EXCEPT !.vr_state_flags = @ \cup {VRSF_REQ_STOP}]

\* Contrast for OneWorker: a reset that puts a ring in SETUP back to RESET
\* itself instead of asking its worker to do it.
ring_reset_at_once(r) ==
    IF r.vr_state = VRS_RESET THEN r
    ELSE IF r.vr_state = VRS_SETUP THEN [r EXCEPT !.vr_state = VRS_RESET]
    ELSE [r EXCEPT !.vr_state_flags = @ \cup {VRSF_REQ_STOP}]

\* viona_ring_reset(): from mutex_enter to the first cv_wait or the return
viona_ring_reset_flags(r) ==
    IF r.vr_state = VRS_RESET THEN r
    ELSE [r EXCEPT !.vr_state_flags = @ \cup {VRSF_REQ_STOP}]

\* What the caller of viona_ring_reset() does with its return value:
\* viona_ioc_ring_reset() returns it, viona_ioc_delete() goes on
ResetReturn(op, err) ==
    IF op = "delete"
    THEN [Return(op, err) EXCEPT !.pc = "deleted", !.at = ctl.at]
    ELSE Return(op, err)

ResetEnter(heed, op) ==
    /\ vr_lock = "free"
    /\ ring' = viona_ring_reset_flags(ring)
    /\ IF ring.vr_state = VRS_RESET
       THEN /\ ctl' = ResetReturn(op, "0")
            /\ UNCHANGED vr_cv
       ELSE /\ ctl' = [ctl EXCEPT !.pc = "reset_wait", !.heed = heed,
                                  !.op = op]
            /\ vr_cv' = (IF VRSF_REQ_STOP \in ring.vr_state_flags
                         THEN vr_cv ELSE {}) \cup {"ctl"}
    /\ UNCHANGED <<vr_lock, wk, rxcb, nic, link, guest, proc, panic>>

\* VNA_IOC_RING_RESET: viona_ioc_ring_reset() -> viona_ring_reset(ring, B_TRUE)
CtlRingReset ==
    /\ LifeStep
    /\ ctl.pc = "idle" /\ ~link.l_destroyed
    /\ ResetEnter(TRUE, "ring_reset")

\* viona_ioc_delete(): mark the link destroyed and drop the ioport hook
CtlDelete ==
    /\ LifeStep
    /\ ctl.pc = "idle" /\ ~link.l_destroyed
    /\ link' = [link EXCEPT !.l_destroyed = TRUE, !.l_notify_ioport = FALSE]
    /\ ctl' = [ctl EXCEPT !.pc = "del_reset", !.op = "delete",
                          !.at = <<ring.vr_state, ring.vr_xfer_outstanding>>]
    /\ UNCHANGED <<ring, vr_lock, vr_cv, wk, rxcb, nic, guest, proc, panic>>

\* viona_ioc_delete(): viona_ring_reset(ring, B_FALSE)
CtlDeleteReset ==
    /\ LifeStep
    /\ ctl.pc = "del_reset"
    /\ ResetEnter(FALSE, "delete")

\* viona_ring_reset(): a wake-up from cv_wait / cv_wait_sig by a broadcast
CtlResetWake ==
    /\ LifeStep
    /\ ctl.pc = "reset_wait" /\ "ctl" \notin vr_cv
    /\ vr_lock = "free"
    /\ IF ring.vr_state = VRS_RESET
       THEN /\ ring' = viona_ring_lease_drop(ring)
            /\ ctl' = ResetReturn(ctl.op, "0")
            /\ UNCHANGED vr_cv
       ELSE /\ vr_cv' = vr_cv \cup {"ctl"}
            /\ UNCHANGED <<ring, ctl>>
    /\ UNCHANGED <<vr_lock, wk, rxcb, nic, link, guest, proc, panic>>

\* viona_ring_reset(): cv_wait_sig() interrupted by a signal (rs <= 0)
CtlResetSig ==
    /\ LifeStep
    /\ ctl.pc = "reset_wait" /\ ctl.heed
    /\ vr_lock = "free"
    /\ vr_cv' = vr_cv \ {"ctl"}
    /\ IF ring.vr_state # VRS_RESET
       THEN /\ ctl' = ResetReturn(ctl.op, "EINTR")
            /\ UNCHANGED ring
       ELSE /\ ring' = viona_ring_lease_drop(ring)
            /\ ctl' = ResetReturn(ctl.op, "0")
    /\ UNCHANGED <<vr_lock, wk, rxcb, nic, link, guest, proc, panic>>

\* viona_ioctl(): mutex_exit(&ss->ss_lock); return (err)
CtlReturn ==
    /\ LifeStep
    /\ ctl.pc = "ret"
    /\ ctl' = CtlIdle
    /\ UNCHANGED <<ring, vr_lock, vr_cv, wk, rxcb, nic, link, guest, proc, panic>>

CtlNext ==
    \/ CtlReturn
    \/ CtlRingInit
    \/ CtlKick
    \/ CtlSetNotifyIoport
    \/ CtlRingReset
    \/ CtlDelete
    \/ CtlDeleteReset
    \/ CtlResetWake
    \/ CtlResetSig

----------------------------------------------------------------------------
(* The ring worker: viona_worker(), viona_worker_rx(), viona_worker_tx()    *)

\* cv_wait_sig(&ring->vr_cv, &ring->vr_lock): release the lock and sleep
CvWaitSig(pc) ==
    /\ wk' = [wk EXCEPT !.pc = pc]
    /\ vr_lock' = "free"
    /\ vr_cv' = IF CvWaitSigSleeps THEN vr_cv \cup {"worker"} ELSE vr_cv

\* cv_wait(&ring->vr_cv, &ring->vr_lock)
CvWait(pc) ==
    /\ wk' = [wk EXCEPT !.pc = pc]
    /\ vr_lock' = "free"
    /\ vr_cv' = vr_cv \cup {"worker"}

\* The worker returns from a wait once broadcast (or signalled) and
\* re-acquires vr_lock
Woken == "worker" \notin vr_cv /\ vr_lock = "free"

\* viona_worker(): entry, up to the INIT state or the early bail
viona_worker_entry(r) ==
    IF VRING_NEED_BAIL THEN r ELSE [r EXCEPT !.vr_state = VRS_INIT]

WorkerStart ==
    /\ LifeStep
    /\ wk.pc = "start"
    /\ vr_lock = "free"
    /\ vr_lock' = "worker"
    /\ panic' = IF ring.vr_state # VRS_SETUP
                THEN "VERIFY3U vr_state == VRS_SETUP" ELSE panic
    /\ ring' = viona_worker_entry(ring)
    /\ IF VRING_NEED_BAIL
       THEN wk' = [wk EXCEPT !.pc = "cleanup"] /\ UNCHANGED vr_cv
       ELSE wk' = [wk EXCEPT !.pc = "init_loop"] /\ vr_cv' = {}
    /\ UNCHANGED <<ctl, rxcb, nic, link, guest, proc>>

\* viona_worker(): the INIT -> RUN step once a state flag is set
viona_worker_run(r) ==
    [r EXCEPT !.vr_state = VRS_RUN,
              !.vr_state_flags = @ \ {VRSF_REQ_START}]

\* viona_worker(): head of "while (ring->vr_state_flags == 0)"
WorkerInitLoop ==
    /\ LifeStep
    /\ wk.pc = "init_loop"
    /\ IF ring.vr_state_flags = {}
       THEN IF LeaseExpired
            THEN /\ wk' = [wk EXCEPT !.pc = "renew", !.ret = "init"]
                 /\ UNCHANGED <<ring, vr_lock, vr_cv>>
            ELSE /\ CvWaitSig("init_wait")
                 /\ UNCHANGED ring
       ELSE /\ ring' = viona_worker_run(ring)
            /\ wk' = [wk EXCEPT !.pc = IF LeaseExpired THEN "renew"
                                       ELSE "run_enter",
                                !.ret = "run"]
            /\ UNCHANGED <<vr_lock, vr_cv>>
    /\ UNCHANGED <<ctl, rxcb, nic, link, guest, proc, panic>>

\* viona_worker(): return from cv_wait_sig() in the INIT loop
WorkerInitWake ==
    /\ LifeStep
    /\ wk.pc = "init_wait"
    /\ Woken
    /\ vr_lock' = "worker"
    /\ wk' = [wk EXCEPT !.pc = IF VRING_NEED_BAIL THEN "cleanup"
                               ELSE "init_loop"]
    /\ UNCHANGED <<ring, vr_cv, ctl, rxcb, nic, link, guest, proc, panic>>

\* viona_ring_lease_renew(): viona_ring_lease_drop() of the old lease
WorkerRenewDrop ==
    /\ LifeStep
    /\ wk.pc = "renew"
    /\ ring' = viona_ring_lease_drop(ring)
    /\ wk' = [wk EXCEPT !.pc = "renew_sign"]
    /\ UNCHANGED <<vr_lock, vr_cv, ctl, rxcb, nic, link, guest, proc, panic>>

\* viona_ring_lease_renew(): vmm_drv_lease_sign() and viona_ring_map()
viona_ring_lease_renew(r, ok) ==
    IF ok THEN [r EXCEPT !.vr_lease = "valid", !.mapped = TRUE]
    ELSE [r EXCEPT !.vr_lease = "NULL", !.mapped = FALSE]

\* What each caller does after a successful renewal, still holding vr_lock
AfterRenew(r) ==
    IF wk.ret \in {"rx", "tx"}
    THEN [r EXCEPT !.vr_state_flags = @ \ {VRSF_RENEW}]
    ELSE r

WorkerRenewSign ==
    /\ LifeStep
    /\ wk.pc = "renew_sign"
    /\ \E ok \in BOOLEAN :
         IF ~ok
         THEN /\ ring' = viona_ring_lease_renew(ring, FALSE)
              /\ wk' = [wk EXCEPT !.pc = CASE wk.ret = "rx" -> "rx_exit"
                                           [] wk.ret = "tx" -> "tx_exit"
                                           [] OTHER -> "cleanup"]
              /\ UNCHANGED <<vr_lock, vr_cv>>
         ELSE /\ ring' = AfterRenew(viona_ring_lease_renew(ring, TRUE))
              /\ CASE wk.ret = "init" -> CvWaitSig("init_wait")
                   [] wk.ret = "run" ->
                        /\ wk' = [wk EXCEPT !.pc = "run_enter"]
                        /\ UNCHANGED <<vr_lock, vr_cv>>
                   [] wk.ret = "rx" -> CvWaitSig("rx_wait")
                   [] OTHER ->
                        /\ wk' = [wk EXCEPT !.pc = "tx_top"]
                        /\ vr_lock' = "free"
                        /\ UNCHANGED vr_cv
    /\ UNCHANGED <<ctl, rxcb, nic, link, guest, proc, panic>>

\* viona_worker(): dispatch; viona_worker_rx() sets NO_NOTIFY,
\* viona_worker_tx() drops vr_lock
WorkerRunEnter ==
    /\ LifeStep
    /\ wk.pc = "run_enter"
    /\ IF ring.idx = "RX"
       THEN /\ guest' = [guest EXCEPT !.used_flags = @ \cup {"NO_NOTIFY"}]
            /\ wk' = [wk EXCEPT !.pc = "rx_loop"]
            /\ UNCHANGED vr_lock
       ELSE /\ wk' = [wk EXCEPT !.pc = "tx_top"]
            /\ vr_lock' = "free"
            /\ UNCHANGED guest
    /\ UNCHANGED <<ring, vr_cv, ctl, rxcb, nic, link, proc, panic>>

\* viona_worker_rx(): head of the do-while loop
WorkerRxLoop ==
    /\ LifeStep
    /\ wk.pc = "rx_loop"
    /\ IF LeaseExpired
       THEN /\ ring' = [ring EXCEPT !.vr_state_flags = @ \cup {VRSF_RENEW}]
            /\ wk' = [wk EXCEPT !.pc = "rx_barrier"]
            /\ vr_lock' = "free"
            /\ UNCHANGED vr_cv
       ELSE /\ CvWaitSig("rx_wait")
            /\ UNCHANGED ring
    /\ UNCHANGED <<ctl, rxcb, nic, link, guest, proc, panic>>

\* mac_rx_barrier(): returns once no RX callback is in flight; then
\* mutex_enter(&ring->vr_lock)
WorkerRxBarrier ==
    /\ LifeStep
    /\ wk.pc = "rx_barrier"
    /\ rxcb.pc = "idle"
    /\ vr_lock = "free"
    /\ vr_lock' = "worker"
    /\ wk' = [wk EXCEPT !.pc = "renew", !.ret = "rx"]
    /\ UNCHANGED <<ring, vr_cv, ctl, rxcb, nic, link, guest, proc, panic>>

\* viona_worker_rx(): return from cv_wait_sig(), the loop condition
WorkerRxWake ==
    /\ LifeStep
    /\ wk.pc = "rx_wait"
    /\ Woken
    /\ vr_lock' = "worker"
    /\ wk' = [wk EXCEPT !.pc = IF VRING_NEED_BAIL THEN "rx_exit" ELSE "rx_loop"]
    /\ UNCHANGED <<ring, vr_cv, ctl, rxcb, nic, link, guest, proc, panic>>

\* viona_worker_rx(): *ring->vr_used_flags &= ~VRING_USED_F_NO_NOTIFY
WorkerRxExit ==
    /\ LifeStep
    /\ wk.pc = "rx_exit"
    /\ IF ring.mapped
       THEN /\ guest' = [guest EXCEPT !.used_flags = @ \ {"NO_NOTIFY"}]
            /\ wk' = [wk EXCEPT !.pc = "cleanup"]
            /\ UNCHANGED panic
       ELSE /\ panic' = "NULL vr_used_flags in viona_worker_rx"
            /\ UNCHANGED <<guest, wk>>
    /\ UNCHANGED <<ring, vr_lock, vr_cv, ctl, rxcb, nic, link, proc>>

\* viona_worker_tx(): top of for (;;): set NO_NOTIFY
WorkerTxTop ==
    /\ LifeStep
    /\ wk.pc = "tx_top"
    /\ wk' = [wk EXCEPT !.pc = "tx_drain", !.bail = FALSE, !.renew = FALSE,
                        !.ntx = 0]
    /\ guest' = [guest EXCEPT !.used_flags = @ \cup {"NO_NOTIFY"}]
    /\ UNCHANGED <<ring, vr_lock, vr_cv, ctl, rxcb, nic, link, proc, panic>>

\* "if (ntx++ >= ring->vr_size) break;" after one viona_tx()
AfterTx(w) ==
    [w EXCEPT !.pc = IF w.ntx >= ring.vr_size THEN "tx_after" ELSE "tx_drain",
              !.ntx = @ + 1]

\* viona_worker_tx(): "while (viona_vr_num_avail(ring))" and one viona_tx():
\* the chain is rejected by the parser, or popped and dropped or copied,
\* or popped and handed to the zero-copy path
WorkerTxDrain ==
    /\ LifeStep
    /\ wk.pc = "tx_drain"
    /\ IF viona_vr_num_avail = 0
       THEN /\ wk' = [wk EXCEPT !.pc = "tx_after"]
            /\ UNCHANGED ring
       ELSE \/ /\ wk' = AfterTx(wk)
               /\ UNCHANGED ring
            \/ /\ wk' = AfterTx(wk)
               /\ ring' = [ring EXCEPT !.vr_cur_aidx = (@ + 1) % IdxMod]
            \/ /\ ring.vr_txdesb
               /\ nic.inflight < MaxInflight
               /\ wk' = [wk EXCEPT !.pc = "tx_zc"]
               /\ ring' = [ring EXCEPT !.vr_cur_aidx = (@ + 1) % IdxMod]
    /\ UNCHANGED <<vr_lock, vr_cv, ctl, rxcb, nic, link, guest, proc, panic>>

\* viona_tx(): zero-copy submission: vr_xfer_outstanding++ under vr_lock,
\* then mac_tx()
WorkerTxZeroCopy ==
    /\ LifeStep
    /\ wk.pc = "tx_zc"
    /\ vr_lock = "free"
    /\ ring' = [ring EXCEPT !.vr_xfer_outstanding = @ + 1]
    /\ nic' = [nic EXCEPT !.inflight = @ + 1]
    /\ wk' = AfterTx(wk)
    /\ UNCHANGED <<vr_lock, vr_cv, ctl, rxcb, link, guest, proc, panic>>

\* viona_worker_tx(): clear NO_NOTIFY, membar, bail = VRING_NEED_BAIL()
WorkerTxAfter ==
    /\ LifeStep
    /\ wk.pc = "tx_after"
    /\ guest' = [guest EXCEPT !.used_flags = @ \ {"NO_NOTIFY"}]
    /\ wk' = [wk EXCEPT !.pc = "tx_check", !.bail = VRING_NEED_BAIL]
    /\ UNCHANGED <<ring, vr_lock, vr_cv, ctl, rxcb, nic, link, proc, panic>>

\* viona_worker_tx(): renew = vmm_drv_lease_expired(); the unlocked re-check
WorkerTxCheck ==
    /\ LifeStep
    /\ wk.pc = "tx_check"
    /\ wk' = [wk EXCEPT !.renew = LeaseExpired,
                        !.pc = IF ~wk.bail /\ ~LeaseExpired
                                  /\ viona_vr_num_avail # 0
                               THEN "tx_top" ELSE "tx_lock"]
    /\ UNCHANGED <<ring, vr_lock, vr_cv, ctl, rxcb, nic, link, guest, proc, panic>>

\* viona_worker_tx(): mutex_enter(&ring->vr_lock)
WorkerTxLock ==
    /\ LifeStep
    /\ wk.pc = "tx_lock"
    /\ vr_lock = "free"
    /\ vr_lock' = "worker"
    /\ wk' = [wk EXCEPT !.pc = "tx_sleep"]
    /\ UNCHANGED <<ring, vr_cv, ctl, rxcb, nic, link, guest, proc, panic>>

\* Contrast for NoLostKick: a worker that goes to sleep on what it saw
\* before it took vr_lock.
tx_may_sleep_unchecked(w) == ~w.bail /\ ~w.renew

\* viona_worker_tx(): "while (!bail && !renew && !viona_vr_num_avail(ring))"
TxMaySleep(w) == ~w.bail /\ ~w.renew /\ viona_vr_num_avail = 0

\* viona_worker_tx(): the sleep loop and what follows it
WorkerTxSleep ==
    /\ LifeStep
    /\ wk.pc = "tx_sleep"
    /\ IF TxMaySleep(wk)
       THEN /\ CvWaitSig("tx_wait")
            /\ UNCHANGED ring
       ELSE IF wk.bail
       THEN /\ wk' = [wk EXCEPT !.pc = "tx_exit"]
            /\ UNCHANGED <<ring, vr_lock, vr_cv>>
       ELSE IF wk.renew
       THEN /\ ring' = [ring EXCEPT !.vr_state_flags = @ \cup {VRSF_RENEW}]
            /\ wk' = [wk EXCEPT !.pc = "tx_renew"]
            /\ UNCHANGED <<vr_lock, vr_cv>>
       ELSE /\ wk' = [wk EXCEPT !.pc = "tx_top"]
            /\ vr_lock' = "free"
            /\ UNCHANGED <<ring, vr_cv>>
    /\ UNCHANGED <<ctl, rxcb, nic, link, guest, proc, panic>>

\* viona_worker_tx(): return from cv_wait_sig(); bail and renew are re-read
WorkerTxWake ==
    /\ LifeStep
    /\ wk.pc = "tx_wait"
    /\ Woken
    /\ vr_lock' = "worker"
    /\ wk' = [wk EXCEPT !.pc = "tx_sleep", !.bail = VRING_NEED_BAIL,
                        !.renew = LeaseExpired]
    /\ UNCHANGED <<ring, vr_cv, ctl, rxcb, nic, link, guest, proc, panic>>

\* Contrast for TxOutstandingGuard: a worker that did not wait for the NIC.
tx_wait_outstanding_skipped(r) == r.vr_xfer_outstanding >= 0

\* viona_tx_wait_outstanding(): nothing more to wait for
viona_tx_wait_outstanding_done(r) == r.vr_xfer_outstanding = 0

\* viona_worker_tx(): viona_tx_wait_outstanding() before the renewal
WorkerTxRenew ==
    /\ LifeStep
    /\ wk.pc = "tx_renew"
    /\ IF viona_tx_wait_outstanding_done(ring)
       THEN /\ wk' = [wk EXCEPT !.pc = "renew", !.ret = "tx"]
            /\ UNCHANGED <<vr_lock, vr_cv>>
       ELSE CvWait("tx_renew_wait")
    /\ UNCHANGED <<ring, ctl, rxcb, nic, link, guest, proc, panic>>

\* viona_worker_tx(): viona_tx_wait_outstanding() after the loop
WorkerTxExit ==
    /\ LifeStep
    /\ wk.pc = "tx_exit"
    /\ IF viona_tx_wait_outstanding_done(ring)
       THEN /\ wk' = [wk EXCEPT !.pc = "cleanup"]
            /\ UNCHANGED <<vr_lock, vr_cv>>
       ELSE CvWait("tx_exit_wait")
    /\ UNCHANGED <<ring, ctl, rxcb, nic, link, guest, proc, panic>>

\* viona_tx_wait_outstanding(): return from cv_wait()
WorkerTxOutstandingWake ==
    /\ LifeStep
    /\ wk.pc \in {"tx_renew_wait", "tx_exit_wait"}
    /\ Woken
    /\ vr_lock' = "worker"
    /\ wk' = [wk EXCEPT !.pc = IF wk.pc = "tx_renew_wait" THEN "tx_renew"
                               ELSE "tx_exit"]
    /\ UNCHANGED <<ring, vr_cv, ctl, rxcb, nic, link, guest, proc, panic>>

\* Contrast for DeleteClean: a cleanup block that leaves vr_worker_thread.
worker_cleanup_keeping_thread(r) ==
    [viona_ring_lease_drop(viona_ring_misc_free(r)) EXCEPT
        !.vr_cur_aidx = 0, !.vr_state = VRS_RESET, !.vr_state_flags = {}]

\* Contrast for ResetIsClean: a cleanup block that leaves vr_state_flags.
worker_cleanup_keeping_flags(r) ==
    [viona_ring_lease_drop(viona_ring_misc_free(r)) EXCEPT
        !.vr_cur_aidx = 0, !.vr_state = VRS_RESET,
        !.vr_worker_thread = FALSE]

\* viona_worker(): the cleanup block
viona_worker_cleanup(r) ==
    [viona_ring_lease_drop(viona_ring_misc_free(r)) EXCEPT
        !.vr_cur_aidx = 0, !.vr_state = VRS_RESET, !.vr_state_flags = {},
        !.vr_worker_thread = FALSE]

WorkerCleanup ==
    /\ LifeStep
    /\ wk.pc = "cleanup"
    /\ IF ring.vr_txdesb /\ ring.vr_xfer_outstanding # 0
       THEN /\ panic' = "VERIFY vr_xfer_outstanding == 0"
            /\ UNCHANGED <<ring, wk, vr_lock, vr_cv>>
       ELSE /\ ring' = viona_worker_cleanup(ring)
            /\ wk' = [wk EXCEPT !.pc = "none"]
            /\ vr_lock' = "free"
            /\ vr_cv' = {}
            /\ UNCHANGED panic
    /\ UNCHANGED <<ctl, rxcb, nic, link, guest, proc>>

WorkerNext ==
    \/ WorkerStart
    \/ WorkerInitLoop
    \/ WorkerInitWake
    \/ WorkerRenewDrop
    \/ WorkerRenewSign
    \/ WorkerRunEnter
    \/ WorkerRxLoop
    \/ WorkerRxBarrier
    \/ WorkerRxWake
    \/ WorkerRxExit
    \/ WorkerTxTop
    \/ WorkerTxDrain
    \/ WorkerTxZeroCopy
    \/ WorkerTxAfter
    \/ WorkerTxCheck
    \/ WorkerTxLock
    \/ WorkerTxSleep
    \/ WorkerTxWake
    \/ WorkerTxRenew
    \/ WorkerTxExit
    \/ WorkerTxOutstandingWake
    \/ WorkerCleanup

----------------------------------------------------------------------------
(* MAC receive callbacks and the NIC's release of zero-copy frames *)

\* MAC calls viona_rx_classified() / viona_rx_mcast()
RxCallbackBegin ==
    /\ LifeStep
    /\ ring.idx = "RX"
    /\ ctl.pc # "deleted"
    /\ rxcb.pc = "idle"
    /\ rxcb' = [rxcb EXCEPT !.pc = "chk_state"]
    /\ UNCHANGED <<ring, vr_lock, vr_cv, wk, ctl, nic, link, guest, proc, panic>>

\* "if (ring->vr_state != VRS_RUN ||": the unlocked read of vr_state
RxCallbackCheckState ==
    /\ LifeStep
    /\ rxcb.pc = "chk_state"
    /\ rxcb' = [rxcb EXCEPT !.pc = IF ring.vr_state # VRS_RUN THEN "idle"
                                   ELSE "chk_flags"]
    /\ UNCHANGED <<ring, vr_lock, vr_cv, wk, ctl, nic, link, guest, proc, panic>>

\* "(ring->vr_state_flags & VRSF_RENEW) != 0)": the unlocked read of the flags
RxCallbackCheckFlags ==
    /\ LifeStep
    /\ rxcb.pc = "chk_flags"
    /\ rxcb' = [rxcb EXCEPT !.pc = IF VRSF_RENEW \in ring.vr_state_flags
                                   THEN "idle" ELSE "common"]
    /\ UNCHANGED <<ring, vr_lock, vr_cv, wk, ctl, nic, link, guest, proc, panic>>

\* viona_rx_common(): pops chains, copies into guest buffers, pushes, reads
\* the avail flags -- all through the ring's guest-memory pointers
RxCallbackCommon ==
    /\ LifeStep
    /\ rxcb.pc = "common"
    /\ IF ring.mapped
       THEN rxcb' = [rxcb EXCEPT !.pc = "idle"] /\ UNCHANGED panic
       ELSE panic' = "viona_rx_common on an unmapped ring" /\ UNCHANGED rxcb
    /\ UNCHANGED <<ring, vr_lock, vr_cv, wk, ctl, nic, link, guest, proc>>

RxNext ==
    \/ RxCallbackBegin
    \/ RxCallbackCheckState
    \/ RxCallbackCheckFlags
    \/ RxCallbackCommon

\* viona_desb_release(), final release: viona_tx_done() pushes the chain
NicReleasePush ==
    /\ LifeStep
    /\ nic.inflight > 0 /\ nic.pc = "idle"
    /\ IF ring.mapped
       THEN nic' = [nic EXCEPT !.pc = "pushed"] /\ UNCHANGED panic
       ELSE panic' = "viona_tx_done on an unmapped ring" /\ UNCHANGED nic
    /\ UNCHANGED <<ring, vr_lock, vr_cv, wk, ctl, rxcb, link, guest, proc>>

\* viona_desb_release(): --vr_xfer_outstanding under vr_lock, broadcast at 0
NicReleaseDone ==
    /\ LifeStep
    /\ nic.pc = "pushed"
    /\ vr_lock = "free"
    /\ ring' = [ring EXCEPT !.vr_xfer_outstanding = @ - 1]
    /\ nic' = [nic EXCEPT !.inflight = @ - 1, !.pc = "idle"]
    /\ Broadcast(ring.vr_xfer_outstanding = 1)
    /\ UNCHANGED <<vr_lock, wk, ctl, rxcb, link, guest, proc, panic>>

NicNext ==
    \/ NicReleasePush
    \/ NicReleaseDone

----------------------------------------------------------------------------
(* Environment: the guest, the hypervisor's lease, the host process *)

\* The guest publishes one more chain (stores avail_idx)
GuestPost ==
    /\ LifeStep
    /\ guest.avail_idx < MaxAvail
    /\ guest' = [guest EXCEPT !.avail_idx = @ + 1]
    /\ UNCHANGED <<ring, vr_lock, vr_cv, wk, ctl, rxcb, nic, link, proc, panic>>

\* The lease expires: viona_ring_lease_expire_cb() broadcasts vr_cv
LeaseExpire ==
    /\ LifeStep
    /\ ring.vr_lease = "valid"
    /\ ring' = [ring EXCEPT !.vr_lease = "expired"]
    /\ vr_cv' = {}
    /\ UNCHANGED <<vr_lock, wk, ctl, rxcb, nic, link, guest, proc, panic>>

\* The host process begins to exit (SEXITING); its lwps asleep in
\* cv_wait_sig() are woken
ProcExit ==
    /\ LifeStep
    /\ ~proc.exiting
    /\ proc' = [proc EXCEPT !.exiting = TRUE]
    /\ vr_cv' = IF wk.pc \in SigWaitPcs THEN vr_cv \ {"worker"} ELSE vr_cv
    /\ UNCHANGED <<ring, vr_lock, wk, ctl, rxcb, nic, link, guest, panic>>

\* cv_wait_sig() in the worker returns without a broadcast
WorkerSignal ==
    /\ LifeStep
    /\ wk.pc \in SigWaitPcs /\ "worker" \in vr_cv
    /\ vr_cv' = vr_cv \ {"worker"}
    /\ UNCHANGED <<ring, vr_lock, wk, ctl, rxcb, nic, link, guest, proc, panic>>

EnvNext ==
    \/ NotifyKick
    \/ WorkerSignal
    \/ GuestPost
    \/ LeaseExpire
    \/ ProcExit

Init == InitLife

Next ==
    \/ CtlNext
    \/ WorkerNext
    \/ RxNext
    \/ NicNext
    \/ EnvNext

Spec == Init /\ [][Next]_vars

\* Scheduling: a runnable worker, control thread, RX callback or NIC
\* completion eventually runs.  The guest, signals, lease expiry, process
\* exit and new ioctls are under no obligation to happen.
Fairness ==
    /\ SF_vars(WorkerNext)
    /\ SF_vars(NicNext)
    /\ SF_vars(CtlDeleteReset \/ CtlResetWake)
    /\ SF_vars(RxCallbackCheckState \/ RxCallbackCheckFlags \/ RxCallbackCommon)

FairSpec == Init /\ [][Next]_vars /\ Fairness

----------------------------------------------------------------------------
(* Properties of the ring lifecycle *)

\* C1: vr_state changes only along the state table and by the listed actor:
\* RESET -> SETUP by ring_init on the control thread (no worker exists yet,
\* the step is taken with vr_lock), SETUP -> INIT and INIT -> RUN by the
\* worker, SETUP/INIT/RUN -> RESET by the worker's cleanup block.  Once the
\* worker exists, every change of vr_state is a step of the worker.
StateTable ==
    [][ring'.vr_state # ring.vr_state =>
        \/ /\ ring.vr_state = VRS_RESET /\ ring'.vr_state = VRS_SETUP
           /\ ctl.pc = "idle" /\ ctl' = Return("ring_init", "0")
           /\ vr_lock = "free"
           /\ wk.pc = "none" /\ wk'.pc = "start"
           /\ ~ring.vr_worker_thread /\ ring'.vr_worker_thread
        \/ /\ ring.vr_state = VRS_SETUP /\ ring'.vr_state = VRS_INIT
           /\ wk.pc = "start" /\ wk'.pc = "init_loop"
           /\ vr_lock' = "worker" /\ ctl' = ctl
        \/ /\ ring.vr_state = VRS_INIT /\ ring'.vr_state = VRS_RUN
           /\ wk.pc = "init_loop" /\ wk'.pc \in {"renew", "run_enter"}
           /\ vr_lock = "worker" /\ ctl' = ctl
        \/ /\ ring.vr_state \in {VRS_SETUP, VRS_INIT, VRS_RUN}
           /\ ring'.vr_state = VRS_RESET
           /\ wk.pc = "cleanup" /\ wk'.pc = "none"
           /\ vr_lock = "worker" /\ ctl' = ctl]_vars

\* C1 witness: a ring that went RESET -> SETUP -> INIT -> RUN, was asked to
\* stop, and whose worker stands at its cleanup block.
StateTableWitness ==
    /\ ring.vr_state = VRS_RUN
    /\ wk.pc = "cleanup"
    /\ VRSF_REQ_STOP \in ring.vr_state_flags

\* C2: once viona_ring_reset() has set REQ_STOP on the TX ring (and
\* broadcast vr_cv), the ring eventually reaches RESET, granted fair
\* scheduling and a NIC that releases every frame.  Runs in which the kernel
\* halts on a VERIFY or a NULL dereference are granted to the statement.
StopLive ==
    (ring.idx = "TX" /\ VRSF_REQ_STOP \in ring.vr_state_flags)
        ~> (ring.vr_state = VRS_RESET \/ panic # "none")

\* C3: while vr_xfer_outstanding > 0 the (TX) ring is in RUN, holds a lease,
\* is mapped and has its reclamation descriptors; the VERIFY of the cleanup
\* block never fails.
TxOutstandingGuard ==
    /\ ring.vr_xfer_outstanding > 0 =>
          /\ ring.idx = "TX"
          /\ ring.vr_state = VRS_RUN
          /\ ring.vr_lease # "NULL"
          /\ ring.mapped
          /\ ring.vr_txdesb
    /\ panic # "VERIFY vr_xfer_outstanding == 0"
    /\ panic # "viona_tx_done on an unmapped ring"

\* C3 witness: the worker was asked to stop and sleeps in
\* viona_tx_wait_outstanding() while the NIC still holds a frame.
TxOutstandingWitness ==
    /\ ring.vr_xfer_outstanding > 0
    /\ wk.pc = "tx_exit_wait"
    /\ VRSF_REQ_STOP \in ring.vr_state_flags

\* C4: no RX callback runs viona_rx_common() -- which reads and writes guest
\* memory through the ring pointers -- on a ring whose lease was dropped and
\* whose pointers were unmapped.
RxCallbackMapped ==
    panic # "viona_rx_common on an unmapped ring"

\* A step in which viona_ring_reset() returns to its caller
ResetReturns ==
    /\ ctl.pc \in {"idle", "del_reset", "reset_wait"}
    /\ ctl'.pc \in {"ret", "deleted"}
    /\ ctl'.op \in {"ring_reset", "delete"}

\* C11: viona_ring_reset() returns 0 or EINTR.  It returns 0 only with the
\* ring in RESET as it returns, and when it finds the ring in RESET it
\* returns at once and leaves the ring, its flags and the sleepers alone.
\* It returns EINTR only to a caller that heeds signals, out of its wait,
\* with the ring not in RESET; a caller that does not heed signals gets 0.
ResetResult ==
    [][ResetReturns =>
        /\ ctl'.err \in {"0", "EINTR"}
        /\ ctl'.err = "0" => ring'.vr_state = VRS_RESET
        /\ ctl.pc # "reset_wait" =>
              /\ ring.vr_state = VRS_RESET
              /\ ctl'.err = "0" /\ ring' = ring /\ vr_cv' = vr_cv
        /\ ctl'.err = "EINTR" =>
              /\ ctl.pc = "reset_wait" /\ ctl.heed
              /\ ring'.vr_state # VRS_RESET
        /\ ctl'.op = "delete" => ctl'.err = "0"
        /\ (ctl.pc = "reset_wait" /\ ~ctl.heed) => ctl'.err = "0"]_vars

\* C11 witness: the ring_reset ioctl has returned EINTR from its wait, the
\* stop request it made still pending on a ring in RUN.
ResetResultWitness ==
    /\ ctl.pc = "ret" /\ ctl.op = "ring_reset" /\ ctl.err = "EINTR"
    /\ ring.vr_state = VRS_RUN
    /\ VRSF_REQ_STOP \in ring.vr_state_flags

Returns(op) == ctl.pc = "idle" /\ ctl'.pc = "ret" /\ ctl'.op = op

\* C39: one worker at most acts on the ring.  A worker that has been created
\* and has not yet taken vr_lock finds the ring in SETUP when it does (the
\* VERIFY at its entry never fails), whatever reset, kick or ring_init did
\* meanwhile; a ring with a worker is not in RESET and has
\* vr_worker_thread set; ring_init succeeds, creating a worker, only on a
\* ring in RESET whose previous worker, if any, has gone through its
\* cleanup; and only the worker itself takes the ring out of SETUP.
OneWorker ==
    /\ [](/\ panic # "VERIFY3U vr_state == VRS_SETUP"
          /\ wk.pc = "start" => ring.vr_state = VRS_SETUP
          /\ ring.vr_state = VRS_SETUP => wk.pc \in {"start", "cleanup"}
          /\ wk.pc # "none" => ring.vr_state # VRS_RESET /\ ring.vr_worker_thread
          /\ vr_lock = "free" => (ring.vr_worker_thread <=> wk.pc # "none"))
    /\ [][/\ (Returns("ring_init") /\ ctl'.err = "0") =>
              /\ wk.pc = "none" /\ ~ring.vr_worker_thread
              /\ ring.vr_state = VRS_RESET
              /\ wk'.pc = "start" /\ ring'.vr_state = VRS_SETUP
          /\ (wk.pc # "start" /\ wk'.pc = "start") =>
              Returns("ring_init") /\ ctl'.err = "0"
          /\ (wk.pc = "start" /\ wk'.pc # "start") =>
              vr_lock = "free" /\ vr_lock' = "worker"
          /\ (ring.vr_state = VRS_SETUP /\ ring'.vr_state # VRS_SETUP) =>
              wk.pc \in {"start", "cleanup"} /\ wk'.pc # wk.pc]_vars

\* C39 witness: the worker has been created and has not run yet; a
\* ring_reset has asked it to stop and waits, and a kick is about to come.
OneWorkerWitness ==
    /\ wk.pc = "start" /\ ring.vr_state = VRS_SETUP
    /\ VRSF_REQ_STOP \in ring.vr_state_flags
    /\ ctl.op = "ring_reset" /\ ctl.pc # "ret"
    /\ vr_lock = "free"

\* A second ring_init finds the worker of the first not yet started
SecondInitBusy ==
    /\ wk.pc = "start"
    /\ ctl.pc = "ret" /\ ctl.op = "ring_init" /\ ctl.err = "EBUSY"

\* C38: whenever vr_lock is free and the ring is in RESET, the ring is
\* clean: vr_state_flags is 0 (the VERIFY of ring_init has not failed and
\* cannot fail), there is no lease, the ring is not mapped, neither the TX
\* descriptors nor the TX iovec are allocated, vr_cur_aidx is 0 and no
\* worker is recorded or running.  Every step out of RESET is a successful
\* ring_init, and every step into RESET is the worker's cleanup.
ResetIsClean ==
    /\ []((vr_lock = "free" /\ ring.vr_state = VRS_RESET) =>
            /\ ring.vr_state_flags = {}
            /\ panic # "VERIFY vr_state_flags == 0"
            /\ ring.vr_lease = "NULL" /\ ~ring.mapped
            /\ ~ring.vr_txdesb /\ ~ring.vr_txiov
            /\ ring.vr_cur_aidx = 0
            /\ ~ring.vr_worker_thread /\ wk.pc = "none")
    /\ [][/\ (ring.vr_state # VRS_RESET /\ ring'.vr_state = VRS_RESET) =>
              wk.pc = "cleanup" /\ wk'.pc = "none" /\ vr_lock' = "free"
          /\ (ring.vr_state = VRS_RESET /\ ring'.vr_state # VRS_RESET) =>
              ctl'.op = "ring_init" /\ ctl'.err = "0"]_vars

\* C38 witness: a TX ring that had its reclamation descriptors and had
\* popped chains is back in RESET after a ring_reset, vr_lock free.
ResetIsCleanWitness ==
    /\ vr_lock = "free" /\ ring.vr_state = VRS_RESET
    /\ ring.idx = "TX" /\ ~link.l_force_tx_copy
    /\ ring.vr_size # 0 /\ guest.avail_idx > 0
    /\ ctl.pc = "ret" /\ ctl.op = "ring_reset" /\ ctl.err = "0"

\* The worker saw a stop request before any kick: it goes from INIT to the
\* cleanup block without having been in RUN
StoppedBeforeRun ==
    /\ wk.pc = "cleanup" /\ ring.vr_state = VRS_INIT
    /\ VRSF_REQ_STOP \in ring.vr_state_flags
    /\ ring.idx = "TX" /\ ring.vr_txdesb

KickResult ==
    /\ [][Returns("ring_kick") =>
            /\ ctl'.err \in {"0", "EINVAL", "EBUSY"}
            /\ ctl'.err = "EBUSY" => ring.vr_state = VRS_RESET
            /\ ctl'.err # "0" => ring' = ring /\ vr_cv' = vr_cv
            /\ ctl'.err = "0" =>
                  /\ ring.vr_state # VRS_RESET
                  /\ vr_cv' = {}
                  /\ ring' = [ring EXCEPT !.vr_state_flags =
                        IF ring.vr_state \in {VRS_SETUP, VRS_INIT}
                        THEN @ \cup {VRSF_REQ_START} ELSE @]]_vars
    /\ [](~(wk.pc = "init_wait" /\ "worker" \in vr_cv
                /\ ring.vr_state_flags # {}))
    /\ [][(wk.pc = "init_loop" /\ wk' # wk
            /\ VRSF_REQ_START \in ring.vr_state_flags) =>
              /\ ring'.vr_state = VRS_RUN
              /\ VRSF_REQ_START \notin ring'.vr_state_flags]_vars

\* C17 witness: a kick has returned 0 on a ring still in SETUP, whose worker
\* has not run yet: REQ_START is waiting for it.
KickWitness ==
    /\ ctl.pc = "ret" /\ ctl.op = "ring_kick" /\ ctl.err = "0"
    /\ ring.vr_state = VRS_SETUP /\ wk.pc = "start"
    /\ ring.vr_state_flags = {VRSF_REQ_START}

\* C25: when the lease of the TX ring expires while its worker is in RUN,
\* the worker eventually observes the expiry and renews the lease (or the
\* ring is torn down, which drops the lease), under every interleaving of
\* the expiry callback's lock-free broadcast with the worker's unlocked read
\* of vmm_drv_lease_expired() and its later sleep.  Granted: fair
\* scheduling, and runs in which the kernel halts.
LeaseRenewLive ==
    (ring.idx = "TX" /\ ring.vr_state = VRS_RUN /\ ring.vr_lease = "expired")
        ~> (ring.vr_lease # "expired" \/ panic # "none")

\* C26: after a failed lease renewal the worker of either ring reaches its
\* cleanup block without touching ring memory: it never dereferences the
\* ring pointers that viona_ring_lease_drop() has set to NULL.
RenewFailQuiet ==
    panic # "NULL vr_used_flags in viona_worker_rx"

\* C28: in one pass of the drain loop of viona_worker_tx() the worker calls
\* viona_tx() at most ring.vr_size times.
DrainBounded ==
    wk.pc \in {"tx_drain", "tx_after"} => wk.ntx <= ring.vr_size

----------------------------------------------------------------------------
(* The descriptor-chain parser vq_popchain().  The guest owns the avail     *)
(* ring, the descriptor table and the indirect tables and may rewrite them  *)
(* at any time, so every read of a descriptor yields any content.           *)

\* Largest iovec capacity (niov) handed to vq_popchain().
MaxNiov == 2

\* vd_flags as far as vq_popchain() looks at them
DescFlags == SUBSET {"NEXT", "INDIRECT"}
\* vd_len: zero, one indirect entry, one and a half, two
DescLens == {0, 16, 24, 32}

\* What one read of a (direct or indirect) descriptor can yield on a ring
\* of the given size; vd_next is looked at only under VRING_DESC_F_NEXT and
\* reads as 0 without it
Descriptors(size) ==
    {d \in [flags : DescFlags, len : DescLens, next : 0..size] :
        "NEXT" \notin d.flags => d.next = 0}

\* viona_gpa2kva(): a kernel address, or NULL for a range that is not
\* guest memory
Translations == {"kva", "NULL"}

\* Contents of the avail ring: slot s holds s, or size-1-s, or an index
\* outside the descriptor table
AvailLayouts == {"same", "rev", "bad"}

vr_avail_ring(lay, slot, size) ==
    CASE lay = "same" -> slot
      [] lay = "rev" -> size - 1 - slot
      [] OTHER -> size

\* "idx & ring->vr_mask" with vr_mask = vr_size - 1, vr_size a power of two
Masked(idx, size) == idx % size

\* VIONA_RING_STAT_INCR(ring, stat)
StatIncr(p, stat) == [p EXCEPT !.stats[stat] = @ + 1]

\* Contrast for PopFailure: a failure path that counts every failure as a
\* bad descriptor index.
pop_bail_counting_other(p, stat) ==
    [p EXCEPT !.pc = "done", !.ret = -1, !.stats["bad_idx"] = @ + 1]

\* "goto bail" after VIONA_RING_STAT_INCR: return (-1)
PopBail(p, stat) == [StatIncr(p, stat) EXCEPT !.pc = "done", !.ret = -1]

\* "loopy:" too_many_desc, then bail
PopLoopy(p) == PopBail(p, "too_many_desc")

\* iov[i].iov_base = buf; iov[i].iov_len = len; i++
IovStore(p, len) ==
    IF p.i < p.niov
    THEN [p EXCEPT !.iov = Append(@, len), !.i = @ + 1]
    ELSE [p EXCEPT !.oob = TRUE, !.i = @ + 1]

\* Contrast for PopBounded: an indirect walk that never finds the iovec full.
indirect_never_full(p) == FALSE

\* "if (i >= niov) goto loopy;" inside the indirect walk
IndirectFull(p) == p.i >= p.niov

\* Contrast for PopSuccess: the cookie taken from the last descriptor visited.
pop_cookie_last(p) == p.next

\* "*cookie = head"
PopCookie(p) == p.head

\* A step of the parser; the ring is in RUN and stays there
PopStep ==
    UNCHANGED <<vr_lock, vr_cv, wk, ctl, rxcb, nic, link, proc, panic, tx, used,
                ss, rx>>

\* The guest publishes: avail_idx is cur_aidx (nothing new), one ahead, or
\* further ahead than the ring is long
GuestWriteAvail ==
    /\ PopStep
    /\ pop.pc = "idle"
    /\ \E d \in {0, 1, ring.vr_size + 1} :
         guest' = [guest EXCEPT !.avail_idx = (ring.vr_cur_aidx + d) % IdxMod]
    /\ UNCHANGED <<ring, pop>>

\* vq_popchain(): entry, ndesc, the read of the head from the avail ring
PopBegin ==
    /\ PopStep
    /\ pop.pc = "idle"
    /\ \E niov \in 1..MaxNiov, lay \in AvailLayouts :
         LET idx   == ring.vr_cur_aidx
             ndesc == (guest.avail_idx - idx + IdxMod) % IdxMod
             head  == vr_avail_ring(lay, Masked(idx, ring.vr_size), ring.vr_size)
             p0    == [pop EXCEPT !.niov = niov, !.ndesc = ndesc, !.lay = lay,
                                  !.i = 0, !.iov = << >>, !.oob = FALSE,
                                  !.vdir = NoDesc, !.vp = NoDesc, !.nindir = 0,
                                  !.buf = "unset",
                                  !.aidx0 = idx, !.stats0 = pop.stats,
                                  !.reads = 0]
             p1    == IF ndesc > ring.vr_size
                      THEN StatIncr(p0, "ndesc_too_high") ELSE p0
         IN  pop' = IF ndesc = 0
                    THEN [p0 EXCEPT !.pc = "done", !.ret = 0]
                    ELSE [p1 EXCEPT !.head = head, !.next = head, !.pc = "outer"]
    /\ UNCHANGED <<ring, guest>>

\* head of "for (i = 0; i < niov; next = vdir.vd_next)": the bound on i, the
\* bound on next, the read of ring->vr_descr[next]
PopOuter ==
    /\ PopStep
    /\ pop.pc = "outer"
    /\ IF pop.i >= pop.niov
       THEN pop' = PopLoopy(pop)
       ELSE IF pop.next >= ring.vr_size
       THEN pop' = PopBail(pop, "bad_idx")
       ELSE \E d \in Descriptors(ring.vr_size) :
              pop' = [pop EXCEPT !.vdir = d, !.reads = @ + 1,
                                 !.pc = IF "INDIRECT" \in d.flags
                                        THEN "indirect" ELSE "direct"]
    /\ UNCHANGED <<ring, guest>>

\* a direct descriptor: length, translation, one iovec entry
PopDirect ==
    /\ PopStep
    /\ pop.pc = "direct"
    /\ IF pop.vdir.len = 0
       THEN pop' = PopBail(pop, "desc_bad_len")
       ELSE \E buf \in Translations :
              LET p0 == [pop EXCEPT !.buf = buf]
              IN  pop' = IF buf = "NULL" THEN PopBail(p0, "bad_ring_addr")
                         ELSE [IovStore(p0, pop.vdir.len) EXCEPT !.pc = "tail"]
    /\ UNCHANGED <<ring, guest>>

\* an INDIRECT descriptor: nindir = vd_len / 16, the length checks, the
\* translation of the table
PopIndirect ==
    /\ PopStep
    /\ pop.pc = "indirect"
    /\ LET nindir == pop.vdir.len \div 16
       IN  IF pop.vdir.len % 16 # 0 \/ nindir = 0
           THEN pop' = PopBail(pop, "indir_bad_len")
           ELSE \E vindir \in Translations :
                  LET p0 == [pop EXCEPT !.buf = vindir]
                  IN  pop' = IF vindir = "NULL"
                             THEN PopBail(p0, "bad_ring_addr")
                             ELSE [p0 EXCEPT !.nindir = nindir, !.next = 0,
                                             !.pc = "inner"]
    /\ UNCHANGED <<ring, guest>>

\* one turn of the "for (;;)" walk of the indirect table: vp = vindir[next]
PopInner ==
    /\ PopStep
    /\ pop.pc = "inner"
    /\ \E vp \in Descriptors(ring.vr_size), buf \in Translations :
         LET p0 == [pop EXCEPT !.vp = vp, !.reads = @ + 1]
             pb == [p0 EXCEPT !.buf = buf]
             p1 == IovStore(pb, vp.len)
         IN  pop' = IF "INDIRECT" \in vp.flags THEN PopBail(p0, "indir_bad_nest")
                    ELSE IF vp.len = 0 THEN PopBail(p0, "desc_bad_len")
                    ELSE IF buf = "NULL" THEN PopBail(pb, "bad_ring_addr")
                    ELSE IF "NEXT" \notin vp.flags THEN [p1 EXCEPT !.pc = "tail"]
                    ELSE IF IndirectFull(p1) THEN PopLoopy(p1)
                    ELSE IF vp.next >= p1.nindir
                         THEN PopBail([p1 EXCEPT !.next = vp.next],
                                      "indir_bad_next")
                    ELSE [p1 EXCEPT !.next = vp.next]
    /\ UNCHANGED <<ring, guest>>

\* "if ((vdir.vd_flags & VRING_DESC_F_NEXT) == 0)": the successful return,
\* or on to next = vdir.vd_next
PopTail ==
    /\ PopStep
    /\ pop.pc = "tail"
    /\ IF "NEXT" \notin pop.vdir.flags
       THEN /\ pop' = [pop EXCEPT !.cookie = PopCookie(pop), !.ret = pop.i,
                                  !.pc = "done"]
            /\ ring' = [ring EXCEPT !.vr_cur_aidx = (@ + 1) % IdxMod]
       ELSE /\ pop' = [pop EXCEPT !.next = pop.vdir.next, !.pc = "outer"]
            /\ UNCHANGED ring
    /\ UNCHANGED guest

\* mutex_exit(&ring->vr_a_mutex); return: the caller has the result
PopReturn ==
    /\ PopStep
    /\ pop.pc = "done"
    /\ pop' = [PopIdle EXCEPT !.pc = "returned", !.ret = pop.ret,
                              !.cookie = pop.cookie, !.stats = pop.stats]
    /\ UNCHANGED <<ring, guest>>

\* A ring in RUN whose worker or RX callback is about to parse; vr_cur_aidx
\* anywhere in its 16-bit range
InitPop ==
    /\ \E idx \in {"RX", "TX"}, sz \in RingSizes, a \in {0, 1, IdxMod - 1} :
         ring = [InitRing(idx) EXCEPT !.vr_state = VRS_RUN, !.vr_size = sz, !.vr_mask = sz - 1,
                                      !.vr_cur_aidx = a, !.vr_lease = "valid",
                                      !.mapped = TRUE,
                                      !.vr_worker_thread = TRUE,
                                      !.vr_txiov = (idx = "TX")]
    /\ guest = [avail_idx |-> ring.vr_cur_aidx, used_flags |-> {}]
    /\ vr_lock = "free" /\ vr_cv = {}
    /\ wk = [pc |-> "run", bail |-> FALSE, renew |-> FALSE, ntx |-> 0, ret |-> "run"]
    /\ ctl = CtlIdle
    /\ rxcb = [pc |-> "idle"]
    /\ nic = [inflight |-> 0, pc |-> "idle"]
    /\ link = [l_destroyed |-> FALSE, l_force_tx_copy |-> TRUE,
               l_notify_ioport |-> FALSE]
    /\ proc = [exiting |-> FALSE]
    /\ panic = "none"
    /\ pop = PopIdle
    /\ ss = SsIdle
    /\ rx = RxIdle
    /\ tx = TxIdle
    /\ used = UsedIdle

NextPop ==
    \/ GuestWriteAvail
    \/ PopBegin
    \/ PopOuter
    \/ PopDirect
    \/ PopIndirect
    \/ PopInner
    \/ PopTail
    \/ PopReturn

SpecPop == InitPop /\ [][NextPop]_vars

----------------------------------------------------------------------------
(* Properties of vq_popchain() *)

FailStats == StatNames \ {"ndesc_too_high"}

\* What the parser last looked at when it gave up, stat by stat
FailureCause(st) ==
    CASE st = "bad_idx" -> pop.next >= ring.vr_size
      [] st = "desc_bad_len" ->
            \/ "INDIRECT" \notin pop.vdir.flags /\ pop.vdir.len = 0
            \/ "INDIRECT" \in pop.vdir.flags /\ pop.vp.len = 0
      [] st = "bad_ring_addr" -> pop.buf = "NULL"
      [] st = "indir_bad_len" ->
            /\ "INDIRECT" \in pop.vdir.flags
            /\ pop.vdir.len % 16 # 0 \/ pop.vdir.len < 16
      [] st = "indir_bad_nest" ->
            "INDIRECT" \in pop.vdir.flags /\ "INDIRECT" \in pop.vp.flags
      [] st = "indir_bad_next" ->
            /\ "INDIRECT" \in pop.vdir.flags /\ "NEXT" \in pop.vp.flags
            /\ pop.vp.next >= pop.vdir.len \div 16
      [] OTHER ->
            /\ pop.i >= pop.niov
            /\ "NEXT" \in pop.vdir.flags \/ "NEXT" \in pop.vp.flags

\* C5: a failing vq_popchain() returns -1, has incremented exactly the one
\* failure statistic that matches what it tripped over, and leaves
\* vr_cur_aidx where it was; a call that does not fail touches no failure
\* statistic.
PopFailure ==
    pop.pc = "done" =>
        IF pop.ret = -1
        THEN /\ ring.vr_cur_aidx = pop.aidx0
             /\ \E st \in FailStats :
                  /\ pop.stats[st] = pop.stats0[st] + 1
                  /\ \A o \in FailStats \ {st} : pop.stats[o] = pop.stats0[o]
                  /\ FailureCause(st)
        ELSE \A st \in FailStats : pop.stats[st] = pop.stats0[st]

\* C5 witness: a walk of an indirect table that failed on a next index
\* beyond the table, after one segment had been collected.
PopFailureWitness ==
    /\ pop.pc = "done" /\ pop.ret = -1
    /\ pop.stats["indir_bad_next"] = 1
    /\ pop.i = 1

\* C6: with nothing published (avail_idx = vr_cur_aidx) vq_popchain()
\* returns 0 and changes neither the index nor the statistics; a successful
\* call returns n in 1..niov with n iovec entries filled, hands back the
\* head read from avail_ring[cur_aidx & mask] as the cookie and advances
\* vr_cur_aidx by one modulo 2^16, however far ahead avail_idx claims to be.
PopSuccess ==
    pop.pc = "done" /\ pop.ret # -1 =>
        IF guest.avail_idx = pop.aidx0
        THEN /\ pop.ret = 0
             /\ ring.vr_cur_aidx = pop.aidx0
             /\ pop.stats = pop.stats0
        ELSE /\ pop.ret \in 1..pop.niov
             /\ Len(pop.iov) = pop.ret
             /\ pop.cookie = vr_avail_ring(pop.lay, pop.aidx0 % ring.vr_size,
                                           ring.vr_size)
             /\ ring.vr_cur_aidx = (pop.aidx0 + 1) % 65536
             /\ pop.stats["ndesc_too_high"] = pop.stats0["ndesc_too_high"]
                    + (IF pop.ndesc > ring.vr_size THEN 1 ELSE 0)

\* C6 witness: a two-segment chain popped at cur_aidx = 65535 while the
\* guest claims more chains than the ring is long; the index wraps to 0.
PopSuccessWitness ==
    /\ pop.pc = "done" /\ pop.ret = 2
    /\ pop.aidx0 = 65535 /\ ring.vr_cur_aidx = 0
    /\ pop.ndesc > ring.vr_size
    /\ pop.cookie # pop.next

\* C7: vq_popchain() never stores to iov[] at an index >= niov, collects at
\* most niov segments, reads at most two descriptors per segment, and a
\* chain that still has NEXT set when niov segments are collected fails
\* with too_many_desc.
PopBounded ==
    /\ ~pop.oob
    /\ pop.i <= pop.niov
    /\ Len(pop.iov) = pop.i
    /\ pop.reads <= 2 * pop.niov
    /\ (/\ pop.pc = "done" /\ pop.i = pop.niov
        /\ \/ "NEXT" \in pop.vdir.flags
           \/ "INDIRECT" \in pop.vdir.flags /\ "NEXT" \in pop.vp.flags)
       => /\ pop.ret = -1
          /\ pop.stats["too_many_desc"] = pop.stats0["too_many_desc"] + 1

\* C7 witness: an indirect table whose entry 0 names itself as next; the
\* walk revisits it until the iovec is full and then gives up.
PopBoundedWitness ==
    /\ pop.pc = "done" /\ pop.ret = -1
    /\ "INDIRECT" \in pop.vdir.flags
    /\ "NEXT" \in pop.vp.flags /\ pop.vp.next = 0 /\ pop.next = 0
    /\ pop.i = pop.niov /\ pop.niov = MaxNiov
    /\ pop.stats["too_many_desc"] = 1

----------------------------------------------------------------------------
(* The transmit path viona_tx() and the reclamation of zero-copy frames by  *)
(* viona_desb_release().  Every popped chain is given a number (tx.chain);  *)
(* tx.ulog lists the used-ring pushes in order, each with the chain it      *)
(* completes, the cookie and the length it carries, the context that made   *)
(* it and whether viona_tx_done() raised an interrupt after it; tx.mac      *)
(* lists the calls of mac_tx(), each with the number of pushes made before  *)
(* it.  Lengths are uint32_t in the code; the chains of the model stay far  *)
(* below 2^32 bytes.  tx.bcast counts the cv_broadcast() calls made by      *)
(* final releases.                                                          *)

\* Chains popped by viona_tx() in one behaviour.
MaxChains == 2

\* sizeof (struct virtio_net_hdr)
HdrSz == 10

\* sizeof (struct ether_vlan_header) + IP_MAX_HDR_LENGTH + TCP_MAX_HDR_LENGTH
VIONA_MAX_HDRS_LEN == 138

MIN(a, b) == IF a < b THEN a ELSE b

RECURSIVE SumLens(_)
SumLens(lens) == IF lens = << >> THEN 0 ELSE Head(lens) + SumLens(Tail(lens))

\* iov[0].iov_len of a popped chain: shorter than the header, the header
\* alone, the header followed by data
TxHdrLens == {4, 10, 12}

\* iov[i].iov_len of the segments behind it: less than, exactly and more
\* than the VIONA_MAX_HDRS_LEN bytes that are always copied
TxSegLens == {60, 138, 200}

\* What atomic_dec_uint_nv() makes of a d_ref of 0: UINT_MAX, which is
\* beyond the integers of the model checker; it is only ever compared with 1
WrappedRef == 1000000

FreeDesb == [d_ref |-> 0, d_cookie |-> 0, d_len |-> 0, chain |-> 0]

\* Contrast for TxIntrPerCompletion: completions that never interrupt.
tx_intr_never(g) == FALSE

\* viona_tx_done(): "(*ring->vr_avail_flags & VRING_AVAIL_F_NO_INTERRUPT) == 0"
tx_intr_wanted(g) == "NO_INTERRUPT" \notin g.avail_flags

\* viona_tx_done(): vq_pushchain(ring, len, cookie), then viona_intr_ring()
\* unless the guest has set NO_INTERRUPT
viona_tx_done(t, chain, cookie, by, len) ==
    [t EXCEPT !.ulog = Append(@, [chain |-> chain, cookie |-> cookie,
                                  by |-> by, len |-> len,
                                  intr |-> tx_intr_wanted(guest)])]

\* mac_tx(link_mch, mp_head, ...) for the chain viona_tx() works on
mac_tx(t) ==
    [t EXCEPT !.mac = Append(@, [chain |-> t.chain, copied |-> ~t.dp,
                                 pushes |-> Len(t.ulog)])]

\* Contrast for CopiedPushFirst: completion deferred until mac_tx() returned.
tx_copied_submit_deferred(t) ==
    viona_tx_done(mac_tx(t), t.chain, t.cookie, "worker", t.len)

\* viona_tx(), dp == NULL: viona_tx_done(ring, len, cookie), then mac_tx()
tx_copied_submit(t) ==
    mac_tx(viona_tx_done(t, t.chain, t.cookie, "worker", t.len))

\* Contrast for TxLenIsSum: a drop that reports the header segment only.
tx_drop_len_header(lens) == lens[1]

\* drop_hook: "len = 0; for (i = 0; i < n; i++) len += iov[i].iov_len;"
tx_drop_len(lens) == SumLens(lens)

\* viona_tx(): "for (i = 1; i < n; i++)", the copy of up to min_copy bytes
\* into the header block; i counts the segments from 1, so the loop starts
\* at segment 2 and leaves in i the segment at which referencing begins
RECURSIVE tx_copy_headers(_, _, _, _)
tx_copy_headers(lens, i, min_copy, len) ==
    IF i > Len(lens) THEN [i |-> i, base_off |-> 0, len |-> len]
    ELSE LET to_copy == MIN(min_copy, lens[i])
         IN  IF min_copy - to_copy = 0
             THEN IF lens[i] = to_copy
                  THEN [i |-> i + 1, base_off |-> 0, len |-> len + to_copy]
                  ELSE [i |-> i, base_off |-> to_copy, len |-> len + to_copy]
             ELSE tx_copy_headers(lens, i + 1, min_copy - to_copy,
                                  len + to_copy)

\* "if (ref > 1) return;" in viona_desb_release()
DesbFinal(ref) == ~(ref > 1)

\* viona_desb_release() up to the reset of the record: fin says whether this
\* was the final release, cookie and chain are what it will push
viona_desb_release(t, k) ==
    LET ref == IF t.desb[k].d_ref = 0 THEN WrappedRef ELSE t.desb[k].d_ref - 1
    IN  IF DesbFinal(ref)
        THEN [tx |-> [t EXCEPT !.desb[k] = FreeDesb], fin |-> TRUE,
              cookie |-> t.desb[k].d_cookie, chain |-> t.desb[k].chain,
              len |-> t.desb[k].d_len]
        ELSE [tx |-> [t EXCEPT !.desb[k].d_ref = ref], fin |-> FALSE,
              cookie |-> 0, chain |-> 0, len |-> 0]

\* freemsgchain() in viona_tx(): every desballoc()ed block of the message
\* calls viona_desb_release() from the worker itself; a final release
\* among them pushes (logged as made by "freemsg"), and s.dec counts the
\* decrements of vr_xfer_outstanding this makes
RECURSIVE FreeBlocks(_, _, _)
FreeBlocks(s, k, m) ==
    IF m = 0 THEN s
    ELSE LET r == viona_desb_release(s.tx, k)
         IN  FreeBlocks(
                 IF r.fin
                 THEN [tx |-> viona_tx_done(r.tx, r.chain, r.cookie, "freemsg",
                                            r.len),
                       dec |-> s.dec + 1]
                 ELSE [tx |-> r.tx, dec |-> s.dec],
                 k, m - 1)

\* Contrast for TxPushedOnce: a drop path that frees the blocks without
\* first taking its own hold on the record.
drop_without_hold(d) == d

\* Contrast for DropKeepsRecord: a drop path that takes two holds.
drop_hold_twice(d) == [d EXCEPT !.d_ref = @ + 2]

\* drop_fail: "dp->d_ref++" before freemsgchain()
DropHold(d) == [d EXCEPT !.d_ref = @ + 1]

\* Contrast for XferAccounting: a zero-copy submission that is not counted.
tx_xfer_uncounted(r) == r

\* viona_tx(), dp != NULL: "ring->vr_xfer_outstanding++" under vr_lock
tx_xfer_begin(r) == [r EXCEPT !.vr_xfer_outstanding = @ + 1]

\* A step of the transmit path; vr_lock is free whenever the path takes it
TxStep ==
    /\ panic = "none"
    /\ UNCHANGED <<vr_lock, vr_cv, wk, ctl, rxcb, nic, link, guest, proc, pop,
                   used, ss, rx>>

\* viona_tx(): n = vq_popchain(ring, iov, max_segs, &cookie)
TxPop ==
    /\ TxStep
    /\ tx.pc = "idle"
    /\ \/ \E res \in {"absent", "failed"} : tx' = [tx EXCEPT !.last = res]
       \/ /\ tx.chains < MaxChains
          /\ \E cookie \in 0..(ring.vr_size - 1), n \in 1..ring.vr_size :
             \E hl \in TxHdrLens, sl \in [1..(n - 1) -> TxSegLens] :
               LET lens == [j \in 1..n |-> IF j = 1 THEN hl ELSE sl[j - 1]]
               IN  tx' = [tx EXCEPT !.last = "chain", !.pc = "hdr",
                                    !.chains = @ + 1, !.chain = tx.chains + 1,
                                    !.cookie = cookie, !.n = n, !.dp = FALSE,
                                    !.lens = lens, !.len = 0, !.i = 0,
                                    !.base_off = 0, !.held = 0,
                                    !.cookies[tx.chains + 1] = cookie,
                                    !.segs[tx.chains + 1] = lens]
    /\ UNCHANGED <<ring, panic>>

\* viona_tx(): "len = iov[0].iov_len", the header length check, the claim
\* of the desb record (atomic_cas_uint(&dp->d_ref, 0, 1)), the block for
\* the headers and the copy of the leading bytes into it
TxHeader ==
    /\ TxStep
    /\ tx.pc = "hdr"
    /\ \E allocOk \in BOOLEAN :
         LET k == tx.cookie
             short == tx.lens[1] < HdrSz
             c == tx_copy_headers(tx.lens, 2, VIONA_MAX_HDRS_LEN, tx.lens[1])
             fail(t) == [t EXCEPT !.pc = "drop_fail", !.len = tx.lens[1]]
             body(t) == [t EXCEPT !.pc = "body", !.i = c.i,
                                  !.base_off = c.base_off, !.len = c.len]
             mine == [tx EXCEPT !.dp = TRUE,
                                !.desb[k] = [d_ref |-> 1, d_cookie |-> k,
                                             d_len |-> 0, chain |-> tx.chain]]
         IN  tx' = IF short THEN fail(tx)
                   ELSE IF ring.vr_txdesb
                   THEN IF tx.desb[k].d_ref # 0 THEN fail(tx)
                        ELSE IF allocOk
                        THEN body([mine EXCEPT !.desb[k].d_ref = @ + 1,
                                               !.held = 1])
                        ELSE fail(mine)
                   ELSE IF allocOk THEN body(tx) ELSE fail(tx)
    /\ UNCHANGED <<ring, panic>>

\* viona_tx(): "for (; i < n; i++)": desballoc() or allocb() of the
\* chunk = iov[i].iov_len - base_off bytes left of the segment
TxBody ==
    /\ TxStep
    /\ tx.pc = "body"
    /\ IF tx.i > tx.n
       THEN tx' = [tx EXCEPT !.pc = "hook"]
       ELSE \E ok \in BOOLEAN :
              LET chunk == tx.lens[tx.i] - tx.base_off
                  t1 == [tx EXCEPT !.i = @ + 1, !.base_off = 0,
                                   !.len = @ + chunk]
              IN  tx' = IF ~ok THEN [tx EXCEPT !.pc = "drop_fail"]
                        ELSE IF tx.dp
                        THEN [t1 EXCEPT !.held = @ + 1,
                                        !.desb[tx.cookie].d_ref = @ + 1]
                        ELSE t1
    /\ UNCHANGED <<ring, panic>>

\* viona_tx(): the out-bound hook.  It may reject the frame (its blocks are
\* freed by the hook or by freemsgchain(mp)), or accept it after pulling up
\* r of its referenced blocks
TxHook ==
    /\ TxStep
    /\ tx.pc = "hook"
    /\ LET k == tx.cookie
           t1 == IF tx.dp THEN [tx EXCEPT !.desb[k].d_ref = @ + 1] ELSE tx
       IN  \/ tx' = [tx EXCEPT !.pc = "csum"] /\ UNCHANGED ring
           \/ LET f == FreeBlocks([tx |-> t1, dec |-> 0], k, tx.held)
              IN  /\ tx' = [f.tx EXCEPT !.held = 0, !.pc = "drop_hook"]
                  /\ ring' = [ring EXCEPT !.vr_xfer_outstanding = @ - f.dec]
           \/ \E r \in 0..tx.held :
                LET f  == FreeBlocks([tx |-> t1, dec |-> 0], k, r)
                    t2 == [f.tx EXCEPT !.held = @ - r, !.pc = "csum"]
                    t3 == IF tx.dp
                          THEN [t2 EXCEPT !.desb[k].d_ref = @ - 1] ELSE t2
                IN  /\ tx' = IF tx.dp /\ t3.desb[k].d_ref = 1
                             THEN [t3 EXCEPT !.desb[k].d_cookie = 0,
                                             !.desb[k].d_ref = 0,
                                             !.desb[k].chain = 0,
                                             !.dp = FALSE]
                             ELSE t3
                    /\ ring' = [ring EXCEPT !.vr_xfer_outstanding = @ - f.dec]
    /\ UNCHANGED panic

\* viona_tx(): viona_tx_csum() when the header asks for a checksum
TxCsum ==
    /\ TxStep
    /\ tx.pc = "csum"
    /\ \E rejected \in BOOLEAN :
         tx' = [tx EXCEPT !.pc = IF rejected THEN "drop_fail" ELSE "submit"]
    /\ UNCHANGED <<ring, panic>>

\* viona_tx(): "dp->d_len = len" and vr_xfer_outstanding++ (zero-copy) or
\* viona_tx_done() (copied), then mac_tx()
TxSubmit ==
    /\ TxStep
    /\ tx.pc = "submit"
    /\ IF tx.dp
       THEN /\ ring' = tx_xfer_begin(ring)
            /\ tx' = [mac_tx([tx EXCEPT !.desb[tx.cookie].d_len = tx.len])
                         EXCEPT !.nicq[tx.cookie] = tx.held, !.held = 0,
                                !.pc = "idle"]
       ELSE /\ tx' = [tx_copied_submit(tx) EXCEPT !.pc = "idle"]
            /\ UNCHANGED ring
    /\ UNCHANGED panic

\* viona_tx(): drop_fail: the extra hold, then freemsgchain(mp_head)
TxDropFail ==
    /\ TxStep
    /\ tx.pc = "drop_fail"
    /\ LET k  == tx.cookie
           t1 == IF tx.dp THEN [tx EXCEPT !.desb[k] = DropHold(@)] ELSE tx
           f  == FreeBlocks([tx |-> t1, dec |-> 0], k, tx.held)
       IN  /\ tx' = [f.tx EXCEPT !.held = 0, !.pc = "drop_hook"]
           /\ ring' = [ring EXCEPT !.vr_xfer_outstanding = @ - f.dec]
    /\ UNCHANGED panic

\* viona_tx(): drop_hook: the sum of the segment lengths,
\* VERIFY(dp->d_ref == 2), reset of the record, viona_tx_done(ring, len,
\* cookie)
TxDropHook ==
    /\ TxStep
    /\ tx.pc = "drop_hook"
    /\ IF tx.dp /\ tx.desb[tx.cookie].d_ref # 2
       THEN /\ panic' = "VERIFY d_ref == 2"
            /\ UNCHANGED tx
       ELSE /\ LET t1 == IF tx.dp THEN [tx EXCEPT !.desb[tx.cookie] = FreeDesb]
                         ELSE tx
               IN  tx' = [viona_tx_done(t1, tx.chain, tx.cookie, "worker",
                                        tx_drop_len(tx.lens))
                             EXCEPT !.pc = "idle", !.dp = FALSE]
            /\ UNCHANGED panic
    /\ UNCHANGED ring

\* The NIC frees one block of a transmitted frame: viona_desb_release() up
\* to the reset of the record
NicFree ==
    /\ TxStep
    /\ tx.nicpc = "idle"
    /\ \E k \in DOMAIN tx.nicq :
         /\ tx.nicq[k] > 0
         /\ LET r == viona_desb_release([tx EXCEPT !.nicq[k] = @ - 1], k)
            IN  tx' = IF r.fin
                      THEN [r.tx EXCEPT !.nicpc = "push",
                                        !.nicdone = [cookie |-> r.cookie,
                                                     chain |-> r.chain,
                                                     len |-> r.len]]
                      ELSE r.tx
    /\ UNCHANGED <<ring, panic>>

\* viona_desb_release(), final release: viona_tx_done(), then
\* --vr_xfer_outstanding under vr_lock and cv_broadcast() if that left 0
NicDone ==
    /\ TxStep
    /\ tx.nicpc = "push"
    /\ tx' = [viona_tx_done(tx, tx.nicdone.chain, tx.nicdone.cookie, "nic",
                            tx.nicdone.len)
                 EXCEPT !.nicpc = "idle",
                        !.nicdone = [cookie |-> 0, chain |-> 0, len |-> 0],
                        !.bcast = IF ring.vr_xfer_outstanding - 1 = 0
                                  THEN @ + 1 ELSE @]
    /\ ring' = [ring EXCEPT !.vr_xfer_outstanding = @ - 1]
    /\ UNCHANGED panic

\* viona_worker_tx(): "if (link->l_features & VIRTIO_F_RING_NOTIFY_ON_EMPTY)"
tx_notify_on_empty(l) == "NOTIFY_ON_EMPTY" \in l.l_features

\* viona_worker_tx(): after the drain loop and its unlocked re-check, before
\* the worker takes vr_lock: viona_intr_ring() when NOTIFY_ON_EMPTY was
\* negotiated, whatever the avail flags say.  The re-check (bail, renew,
\* nothing available) is not part of this specification's state, so the
\* step is offered whenever no viona_tx() call is in progress.
TxDrainEnd ==
    /\ TxStep
    /\ tx.pc = "idle"
    /\ tx' = [tx EXCEPT !.last = IF tx_notify_on_empty(link)
                                 THEN "drain_intr" ELSE "drain"]
    /\ UNCHANGED <<ring, panic>>

\* A TX ring in RUN, with or without the reclamation records
\* (l_force_tx_copy), NOTIFY_ON_EMPTY negotiated or not, the guest's avail
\* flags with NO_INTERRUPT set or clear
InitTx ==
    /\ \E sz \in RingSizes, zc \in BOOLEAN,
          f \in SUBSET {"NOTIFY_ON_EMPTY"}, af \in SUBSET {"NO_INTERRUPT"} :
         /\ ring = [InitRing("TX") EXCEPT !.vr_state = VRS_RUN, !.vr_size = sz, !.vr_mask = sz - 1,
                                         !.vr_lease = "valid", !.mapped = TRUE,
                                         !.vr_worker_thread = TRUE,
                                         !.vr_txiov = TRUE, !.vr_txdesb = zc]
         /\ link = [l_destroyed |-> FALSE, l_force_tx_copy |-> ~zc,
                    l_notify_ioport |-> FALSE, l_features |-> f]
         /\ tx = [TxIdle EXCEPT
                    !.desb = [k \in 0..(sz - 1) |-> FreeDesb],
                    !.nicq = [k \in 0..(sz - 1) |-> 0],
                    !.cookies = [c \in 1..MaxChains |-> 0],
                    !.segs = [c \in 1..MaxChains |-> << >>]]
         /\ guest = [avail_idx |-> 0, used_flags |-> {}, avail_flags |-> af]
    /\ vr_lock = "free" /\ vr_cv = {}
    /\ wk = [pc |-> "tx_drain", bail |-> FALSE, renew |-> FALSE, ntx |-> 0,
             ret |-> "run"]
    /\ ctl = CtlIdle
    /\ rxcb = [pc |-> "idle"]
    /\ nic = [inflight |-> 0, pc |-> "idle"]
    /\ proc = [exiting |-> FALSE]
    /\ panic = "none"
    /\ pop = PopIdle
    /\ ss = SsIdle
    /\ rx = RxIdle
    /\ used = UsedIdle

NextTx ==
    \/ TxPop
    \/ TxHeader
    \/ TxBody
    \/ TxHook
    \/ TxCsum
    \/ TxSubmit
    \/ TxDropFail
    \/ TxDropHook
    \/ NicFree
    \/ NicDone
    \/ TxDrainEnd

SpecTx == InitTx /\ [][NextTx]_vars

\* The pushes made for chain c so far
PushesOf(c) == {i \in DOMAIN tx.ulog : tx.ulog[i].chain = c}

\* C8: every chain popped by viona_tx() gets exactly one used-ring push,
\* carrying its cookie: none while viona_tx() still works on it or the NIC
\* still holds a block of it, one from then on, never two; no push carries
\* anything but the cookie of a popped chain; VERIFY(dp->d_ref == 2) holds.
TxPushedOnce ==
    /\ \A i \in DOMAIN tx.ulog :
         /\ tx.ulog[i].chain \in 1..tx.chains
         /\ tx.ulog[i].cookie = tx.cookies[tx.ulog[i].chain]
    /\ \A c \in 1..tx.chains :
         LET busy    == tx.pc # "idle" /\ tx.chain = c
             flying  == \E k \in DOMAIN tx.desb :
                           tx.desb[k].chain = c /\ tx.desb[k].d_ref > 0
             pending == tx.nicpc = "push" /\ tx.nicdone.chain = c
         IN  Cardinality(PushesOf(c)) =
                 IF busy \/ flying \/ pending THEN 0 ELSE 1
    /\ panic = "none"

\* C8 witness: two chains with the same cookie; the second was dropped by
\* the worker because the record was still in use, the first was pushed by
\* the NIC's final release afterwards.
TxPushedOnceWitness ==
    /\ Len(tx.ulog) = 2
    /\ tx.ulog[1].chain = 2 /\ tx.ulog[1].by = "worker"
    /\ tx.ulog[2].chain = 1 /\ tx.ulog[2].by = "nic"
    /\ tx.ulog[1].cookie = tx.ulog[2].cookie

\* C23, as stated: without NOTIFY_ON_EMPTY among the negotiated features no
\* interrupt is raised on the TX ring, neither by a completion pushed from
\* viona_tx() or from the NIC's final release nor at the end of a drain.
TxDrainQuiet ==
    ~tx_notify_on_empty(link) =>
        /\ \A i \in DOMAIN tx.ulog : ~tx.ulog[i].intr
        /\ tx.last # "drain_intr"

\* C23, amended: every TX completion -- copied, dropped or released by the
\* NIC -- raises an interrupt exactly when the guest's avail flags have
\* NO_INTERRUPT clear, whatever was negotiated; NOTIFY_ON_EMPTY decides only
\* the additional interrupt viona_worker_tx() raises once a drain pass has
\* left it nothing to transmit.
TxIntrPerCompletion ==
    /\ \A i \in DOMAIN tx.ulog :
         tx.ulog[i].intr <=> "NO_INTERRUPT" \notin guest.avail_flags
    /\ tx.last = "drain_intr" => "NOTIFY_ON_EMPTY" \in link.l_features
    /\ tx.last = "drain" => "NOTIFY_ON_EMPTY" \notin link.l_features

\* C23 witness: NOTIFY_ON_EMPTY not negotiated, NO_INTERRUPT clear; a
\* completion from the worker and one from the NIC each raised an
\* interrupt, the end of the drain did not.
TxIntrWitness ==
    /\ "NOTIFY_ON_EMPTY" \notin link.l_features
    /\ tx.last = "drain"
    /\ \E i, j \in DOMAIN tx.ulog :
         /\ tx.ulog[i].by = "worker" /\ tx.ulog[i].intr
         /\ tx.ulog[j].by = "nic" /\ tx.ulog[j].intr

\* C29, as stated: the used-ring push of a frame sent on the copied path
\* comes after the mac_tx() call that submits the frame.
CopiedPushAfterMac ==
    \A j \in DOMAIN tx.mac :
        tx.mac[j].copied =>
            \A i \in PushesOf(tx.mac[j].chain) : i > tx.mac[j].pushes

\* C29, amended: on the copied path the completion is pushed before
\* mac_tx() is called -- the push is in the used ring when the frame is
\* handed to MAC; on the zero-copy path no push for the chain exists yet
\* at that moment.  A dropped chain is never handed to MAC.
CopiedPushFirst ==
    /\ \A j \in DOMAIN tx.mac :
         LET before == {i \in PushesOf(tx.mac[j].chain) : i <= tx.mac[j].pushes}
         IN  IF tx.mac[j].copied
             THEN /\ before = PushesOf(tx.mac[j].chain)
                  /\ Cardinality(before) = 1
                  /\ \A i \in before : tx.ulog[i].by = "worker"
             ELSE before = {}
    /\ \A i, j \in DOMAIN tx.mac : tx.mac[i].chain = tx.mac[j].chain => i = j

\* C29 witness: one copied frame was handed to MAC, its completion being
\* the one push made before the call.
CopiedPushWitness ==
    /\ Len(tx.mac) = 1 /\ tx.mac[1].copied /\ tx.mac[1].pushes = 1
    /\ Len(tx.ulog) = 1 /\ tx.ulog[1].chain = tx.mac[1].chain
    /\ tx.pc = "idle"

\* C30: the length of every TX completion is the sum of the lengths of all
\* segments of its chain, the header segment included: on the copied path,
\* on the zero-copy path (d_len, pushed by the final release) and on every
\* drop path.  (Sums below 2^32, the width of len.)
TxLenIsSum ==
    \A i \in DOMAIN tx.ulog :
        tx.ulog[i].len = SumLens(tx.segs[tx.ulog[i].chain])

\* C30 witness: a chain of 4 + 60 bytes dropped for its short header and
\* a chain of 12 + 200 bytes sent by reference, completed by the NIC.
TxLenWitness ==
    /\ Len(tx.ulog) = 2
    /\ tx.ulog[1].by = "worker" /\ tx.ulog[1].len = 64
    /\ tx.ulog[2].by = "nic" /\ tx.ulog[2].len = 212

\* The chains handed to MAC by reference, and those among them whose final
\* release has pushed
ZcSubmitted == {tx.mac[j].chain : j \in {i \in DOMAIN tx.mac : ~tx.mac[i].copied}}

NicCompleted == {tx.ulog[i].chain : i \in {j \in DOMAIN tx.ulog : tx.ulog[j].by = "nic"}}

\* C31: vr_xfer_outstanding counts the frames handed to MAC by reference
\* whose final release has not completed: it is never negative, it is raised
\* by one by the submission of such a frame (and by nothing else) in the step
\* that hands the frame to MAC, and lowered by one by the frame's final
\* release (and by nothing else).  That release resets the record to unused
\* before it pushes, pushes the record's d_len and d_cookie once, and
\* broadcasts exactly when the counter has reached zero.
XferAccounting ==
    /\ [](/\ ring.vr_xfer_outstanding >= 0
          /\ NicCompleted \subseteq ZcSubmitted
          /\ ring.vr_xfer_outstanding = Cardinality(ZcSubmitted \ NicCompleted)
          /\ \A c \in NicCompleted :
               Cardinality({i \in PushesOf(c) : tx.ulog[i].by = "nic"}) = 1
          /\ tx.nicpc = "push" =>
               /\ tx.nicdone.chain \in ZcSubmitted \ NicCompleted
               /\ tx.nicdone.cookie = tx.cookies[tx.nicdone.chain]
               /\ tx.nicdone.len = SumLens(tx.segs[tx.nicdone.chain]))
    /\ [][/\ (tx.nicpc = "idle" /\ tx'.nicpc = "push") =>
               tx'.desb[tx'.nicdone.cookie] = FreeDesb
          /\ (tx.nicpc = "push" /\ tx'.nicpc = "idle") =>
               /\ tx'.ulog = Append(tx.ulog,
                                    [chain |-> tx.nicdone.chain,
                                     cookie |-> tx.nicdone.cookie,
                                     by |-> "nic", len |-> tx.nicdone.len,
                                     intr |-> tx_intr_wanted(guest)])
               /\ ring'.vr_xfer_outstanding = ring.vr_xfer_outstanding - 1
               /\ tx'.bcast = tx.bcast +
                     (IF ring'.vr_xfer_outstanding = 0 THEN 1 ELSE 0)
          /\ ring'.vr_xfer_outstanding > ring.vr_xfer_outstanding =>
               /\ ring'.vr_xfer_outstanding = ring.vr_xfer_outstanding + 1
               /\ Len(tx'.mac) = Len(tx.mac) + 1
               /\ ~tx'.mac[Len(tx'.mac)].copied
          /\ ring'.vr_xfer_outstanding < ring.vr_xfer_outstanding =>
               tx.nicpc = "push" /\ tx'.nicpc = "idle"]_vars

\* C31 witness: two frames were handed to MAC by reference; the final
\* release of the first left the counter at one and did not broadcast, the
\* final release of the second brought it to zero and did.
XferWitness ==
    /\ Cardinality(ZcSubmitted) = 2 /\ Cardinality(NicCompleted) = 2
    /\ ring.vr_xfer_outstanding = 0
    /\ tx.bcast = 1
    /\ tx.nicpc = "idle"

\* C32: inside viona_tx() no release of a block is the record's final
\* release -- no push comes out of freemsgchain() or out of the hook -- and
\* vr_xfer_outstanding is left alone; wherever the drop clean-up is reached
\* with a record, its d_ref is 2 (VERIFY(dp->d_ref == 2) holds); the
\* clean-up leaves the record unused (d_ref, d_len and d_cookie 0); and a
\* frame all of whose referenced blocks were released by a pull-up in an
\* accepting hook goes on as a copied frame with the record unused.
DropKeepsRecord ==
    /\ [](/\ \A i \in DOMAIN tx.ulog : tx.ulog[i].by # "freemsg"
          /\ panic # "VERIFY d_ref == 2"
          /\ (tx.pc = "drop_hook" /\ tx.dp) => tx.desb[tx.cookie].d_ref = 2
          /\ (tx.pc \in {"csum", "submit"} /\ tx.held = 0) =>
               ~tx.dp /\ (ring.vr_txdesb => tx.desb[tx.cookie].d_ref = 0))
    /\ [][/\ (tx.pc = "drop_hook" /\ tx'.pc = "idle" /\ tx.dp) =>
               tx'.desb[tx.cookie] = FreeDesb
          /\ (tx.pc = "hook" /\ tx'.pc = "csum" /\ tx.dp /\ tx'.held = 0) =>
               ~tx'.dp /\ tx'.desb[tx.cookie] = FreeDesb
          /\ (tx.pc \in {"hook", "drop_fail"} /\ tx'.pc # tx.pc) =>
               /\ ring'.vr_xfer_outstanding = ring.vr_xfer_outstanding
               /\ Len(tx'.ulog) = Len(tx.ulog)]_vars

\* C32 witness: on a ring with reclamation records the first chain, its
\* header long enough, was dropped by the clean-up without reaching MAC;
\* the second, of two segments, was accepted by the hook after a pull-up
\* that released every block and goes on as a copied frame.
DropKeepsWitness ==
    /\ ring.vr_txdesb
    /\ tx.chains = 2 /\ tx.mac = << >>
    /\ Len(tx.ulog) = 1 /\ tx.ulog[1].by = "worker" /\ tx.ulog[1].chain = 1
    /\ tx.segs[1][1] >= HdrSz /\ Len(tx.segs[1]) = 2
    /\ tx.pc = "submit" /\ ~tx.dp /\ tx.held = 0 /\ tx.n = 2

----------------------------------------------------------------------------
(* viona_tx_csum(): the checksum request of a TX header.  tx.in holds what  *)
(* the function is called with: the header's csum_start and csum_offset     *)
(* (uint16_t), len (the frame's length without the virtio header), MBLKL()  *)
(* of the header block, whether the frame carries a VLAN tag, its           *)
(* ethertype and IP protocol, whether the header asks for TCPv4             *)
(* segmentation and l_cap_csum; tx.out holds what it returns, the statistic *)
(* it counts and the arguments of mac_hcksum_set().  The offsets are uint_t *)
(* in the code: a 32-bit value is kept as its two 16-bit halves.            *)

\* sizeof (struct ether_header)
ETHER_HEADER_SZ == 14

\* sizeof (struct ether_vlan_header)
ETHER_VLAN_HEADER_SZ == 18

\* vrh_csum_start of the requests: below, at and above the two L2 header
\* lengths, the usual 34, at and past the end of a 60-byte frame
CsumStarts == {0, 13, 14, 17, 18, 34, 59, 60}

\* vrh_csum_offset: TCP and UDP checksum fields and far beyond them
CsumOffsets == {6, 16, 65535}

\* Frame lengths
CsumLens == {15, 60, 200}

\* a - b in 32 bits, unsigned
U32Sub(a, b) ==
    LET d == a - b
    IN  IF d >= 0 THEN [hi |-> d \div IdxMod, lo |-> d % IdxMod]
        ELSE [hi |-> (IdxMod - 1) - ((0 - d - 1) \div IdxMod),
              lo |-> (IdxMod - ((0 - d) % IdxMod)) % IdxMod]

\* viona_tx_csum(): the bounds check of the offsets against len, struct
\* ether_header and the header block
csum_rejected(in) ==
    LET csum_start == in.csum_start
        csum_stuff == in.csum_offset + csum_start
    IN  \/ csum_start >= in.len
        \/ csum_start < ETHER_HEADER_SZ
        \/ csum_stuff >= in.len
        \/ csum_stuff + 2 > in.mblkl

\* viona_tx_csum() past the bounds check: eth_len, the LSO flags, and
\* partial or full checksum offload as the NIC allows
csum_offload(in) ==
    LET csum_start == in.csum_start
        csum_stuff == in.csum_offset + csum_start
        eth_len == IF in.vlan THEN ETHER_VLAN_HEADER_SZ ELSE ETHER_HEADER_SZ
        l4 == in.ipproto \in {"TCP", "UDP"}
        lso == "HCKSUM_INET_PARTIAL" \in in.cap /\ in.gso /\ in.ftype = "IP"
        flags == IF lso THEN {"HCK_IPV4_HDRCKSUM", "HW_LSO"} ELSE {}
        none == [hi |-> 0, lo |-> 0]
        fail(stat) == [ok |-> FALSE, stat |-> stat, set |-> FALSE,
                       start |-> none, stuff |-> none, end |-> none,
                       flags |-> {}]
        full == [ok |-> TRUE, stat |-> "none", set |-> TRUE,
                 start |-> none, stuff |-> none, end |-> none,
                 flags |-> flags \cup {"HCK_FULLCKSUM"}]
    IN  IF "HCKSUM_INET_PARTIAL" \in in.cap /\ l4
        THEN [ok |-> TRUE, stat |-> "none", set |-> TRUE,
              start |-> U32Sub(csum_start, eth_len),
              stuff |-> U32Sub(csum_stuff, eth_len),
              end |-> U32Sub(in.len, eth_len),
              flags |-> flags \cup {"HCK_PARTIALCKSUM"}]
        ELSE IF in.ftype = "IP"
        THEN IF "HCKSUM_INET_FULL_V4" \in in.cap /\ l4 THEN full
             ELSE fail("fail_hcksum")
        ELSE IF in.ftype = "IPV6"
        THEN IF "HCKSUM_INET_FULL_V6" \in in.cap /\ l4 THEN full
             ELSE fail("fail_hcksum6")
        ELSE fail("fail_hcksum_proto")

CsumStep ==
    UNCHANGED <<ring, vr_lock, vr_cv, wk, ctl, rxcb, nic, link, guest, proc,
                panic, pop, used, ss, rx>>

\* viona_tx_csum(): the offsets are out of bounds: fail_hcksum, B_FALSE
CsumValidate ==
    /\ tx.pc = "csum_check"
    /\ tx' = IF csum_rejected(tx.in)
             THEN [tx EXCEPT !.pc = "done",
                             !.out = [@ EXCEPT !.stat = "fail_hcksum"]]
             ELSE [tx EXCEPT !.pc = "csum_offload"]
    /\ CsumStep

\* viona_tx_csum(): the rest of the function
CsumOffload ==
    /\ tx.pc = "csum_offload"
    /\ tx' = [tx EXCEPT !.pc = "done", !.out = csum_offload(tx.in)]
    /\ CsumStep

\* viona_tx() is about to call viona_tx_csum() for a frame whose header
\* has NEEDS_CSUM set
InitCsum ==
    /\ \E cs \in CsumStarts, co \in CsumOffsets, len \in CsumLens,
          vlan \in BOOLEAN, ftype \in {"IP", "IPV6", "OTHER"},
          ipproto \in {"TCP", "UDP", "NONE"}, gso \in BOOLEAN,
          cap \in SUBSET {"HCKSUM_INET_PARTIAL", "HCKSUM_INET_FULL_V4",
                          "HCKSUM_INET_FULL_V6"} :
         /\ ftype = "OTHER" => ipproto = "NONE"
         /\ tx = [pc |-> "csum_check",
                  in |-> [csum_start |-> cs, csum_offset |-> co, len |-> len,
                          mblkl |-> MIN(len, VIONA_MAX_HDRS_LEN),
                          vlan |-> vlan, ftype |-> ftype, ipproto |-> ipproto,
                          gso |-> gso, cap |-> cap],
                  out |-> [ok |-> FALSE, stat |-> "none", set |-> FALSE,
                           start |-> [hi |-> 0, lo |-> 0],
                           stuff |-> [hi |-> 0, lo |-> 0],
                           end |-> [hi |-> 0, lo |-> 0], flags |-> {}]]
    /\ ring = InitRing("TX")
    /\ vr_lock = "free" /\ vr_cv = {}
    /\ wk = [pc |-> "none", bail |-> FALSE, renew |-> FALSE, ntx |-> 0,
             ret |-> "init"]
    /\ ctl = CtlIdle
    /\ rxcb = [pc |-> "idle"]
    /\ nic = [inflight |-> 0, pc |-> "idle"]
    /\ link = [l_destroyed |-> FALSE, l_force_tx_copy |-> TRUE,
               l_notify_ioport |-> FALSE]
    /\ guest = [avail_idx |-> 0, used_flags |-> {}]
    /\ proc = [exiting |-> FALSE]
    /\ panic = "none"
    /\ pop = PopIdle
    /\ ss = SsIdle
    /\ rx = RxIdle
    /\ used = UsedIdle

NextCsum ==
    \/ CsumValidate
    \/ CsumOffload

SpecCsum == InitCsum /\ [][NextCsum]_vars

\* The L2 header of the frame viona_tx_csum() looked at
EthLen(in) == IF in.vlan THEN ETHER_VLAN_HEADER_SZ ELSE ETHER_HEADER_SZ

\* A request is refused with fail_hcksum unless csum_start lies between
\* sizeof (struct ether_header) and len and the checksum field lies in the
\* header block
CsumValidated ==
    tx.pc = "done" =>
        LET in == tx.in
            inside == /\ in.csum_start >= ETHER_HEADER_SZ
                      /\ in.csum_start < in.len
                      /\ in.csum_start + in.csum_offset + 2 <= in.mblkl
        IN  /\ tx.out.ok => inside
            /\ ~inside => tx.out.stat = "fail_hcksum" /\ ~tx.out.set

\* C36: a request is accepted only with csum_start in [eth_len, len) and
\* the checksum field inside the header block, and refused with
\* fail_hcksum otherwise; so whenever partial checksum offload is
\* programmed, the offsets given to mac_hcksum_set() are the differences
\* csum_start - eth_len and csum_stuff - eth_len themselves, eth_len being
\* the length of the frame's L2 header (18 with a VLAN tag): neither is
\* negative, neither has wrapped.
CsumOffsetsInRange ==
    /\ CsumValidated
    /\ (tx.pc = "done" /\ "HCK_PARTIALCKSUM" \in tx.out.flags) =>
          LET in == tx.in
              csum_stuff == in.csum_start + in.csum_offset
          IN  /\ in.csum_start - EthLen(in) >= 0
              /\ tx.out.start = [hi |-> 0, lo |-> in.csum_start - EthLen(in)]
              /\ csum_stuff - EthLen(in) >= 0
              /\ tx.out.stuff = [hi |-> 0, lo |-> csum_stuff - EthLen(in)]

----------------------------------------------------------------------------
(* The used ring: vq_pushchain() and vq_pushchain_mrgrx().  Stores to guest *)
(* memory sit in the storing CPU's buffer (pu[p].sb) and become visible in  *)
(* any order, unless a barrier or the release of a mutex lies in between.   *)
(* The guest never has more chains outstanding than the ring has entries,   *)
(* so the pushes of one behaviour carry at most vr_size entries, and at     *)
(* most MaxUsed.                                                            *)

\* Chains the guest has outstanding during one behaviour
MaxUsed == 2

\* Lengths reported in used entries
UsedLens == {60, 61}

\* The entries of a push of k chains whose first cookie is c
UsedElems(c, len, k, size) ==
    [i \in 1..k |-> [id |-> (c + i - 1) % size, len |-> len]]

\* Entries handed to pushes that wait for vr_u_mutex
EntriesWaiting(p) == IF used.pu[p].pc = "enter" THEN used.pu[p].k ELSE 0

EntriesClaimed == Len(used.plog) + EntriesWaiting("p1") + EntriesWaiting("p2")

\* Contrast for UsedIdxAdvance: pushes that do not take vr_u_mutex.
used_mutex_ignored(u) == TRUE

\* mutex_enter(&ring->vr_u_mutex) can proceed
UMutexFree(u) == u.mutex = "free"

\* Contrast for UsedPublishedWritten: pushes without the barrier.
membar_absent(sb) == TRUE

\* membar_producer(): every earlier store is visible before any later one
membar_producer(sb) == sb = {}

\* A step of a push
PushStep ==
    /\ panic = "none"
    /\ UNCHANGED <<ring, vr_lock, vr_cv, wk, ctl, rxcb, nic, link, guest, proc,
                   panic, pop, tx, ss, rx>>

\* A caller enters vq_pushchain(ring, len, cookie) or
\* vq_pushchain_mrgrx(ring, num_bufs, elem)
PushCall(p) ==
    /\ PushStep
    /\ used.pu[p].pc = "idle"
    /\ \E variant \in {"plain", "mrgrx"}, c \in 0..(ring.vr_size - 1),
          len \in UsedLens, k \in 1..ring.vr_size :
         /\ variant = "plain" => k = 1
         /\ EntriesClaimed + k <= ring.vr_size
         /\ EntriesClaimed + k <= MaxUsed
         /\ used' = [used EXCEPT !.pu[p] =
                [PusherIdle EXCEPT !.pc = "enter", !.variant = variant,
                                   !.k = k,
                                   !.elems = UsedElems(c, len, k, ring.vr_size)]]

\* mutex_enter(&ring->vr_u_mutex); uidx = *ring->vr_used_idx
PushEnter(p) ==
    /\ PushStep
    /\ used.pu[p].pc = "enter"
    /\ UMutexFree(used)
    /\ used' = [used EXCEPT !.mutex = p,
                            !.pu[p].pc = "store",
                            !.pu[p].uidx = used.idx,
                            !.pu[p].old = used.idx,
                            !.pu[p].i = 0,
                            !.plog = @ \o [j \in 1..used.pu[p].k |->
                                [p |-> p, old |-> used.idx, n |-> j,
                                 elem |-> used.pu[p].elems[j]]]]

\* The stores of one entry: vu->vu_idx = id; vu->vu_tlen = len.  A single
\* entry goes to uidx++ & mask, entry i of several to (uidx + i) & mask;
\* after the last of several, uidx = uidx + num_bufs
PushStore(p) ==
    /\ PushStep
    /\ used.pu[p].pc = "store"
    /\ LET q      == used.pu[p]
           single == q.variant = "plain" \/ q.k = 1
           slot   == IF single THEN Masked(q.uidx, ring.vr_size)
                     ELSE Masked(q.uidx + q.i, ring.vr_size)
           e      == q.elems[q.i + 1]
           last   == q.i + 1 = q.k
       IN  used' = [used EXCEPT
              !.pu[p].sb = @ \cup {[loc |-> "id", slot |-> slot, val |-> e.id],
                                   [loc |-> "len", slot |-> slot, val |-> e.len]},
              !.pu[p].i = @ + 1,
              !.pu[p].uidx = IF single THEN @ + 1
                             ELSE IF last THEN @ + q.k ELSE @,
              !.pu[p].pc = IF last THEN "fence" ELSE "store"]

\* membar_producer()
PushFence(p) ==
    /\ PushStep
    /\ used.pu[p].pc = "fence"
    /\ membar_producer(used.pu[p].sb)
    /\ used' = [used EXCEPT !.pu[p].pc = "publish"]

\* *ring->vr_used_idx = uidx (a uint16_t store)
PushPublish(p) ==
    /\ PushStep
    /\ used.pu[p].pc = "publish"
    /\ used' = [used EXCEPT
           !.pu[p].sb = @ \cup {[loc |-> "idx", slot |-> 0,
                                 val |-> used.pu[p].uidx % IdxMod]},
           !.pu[p].pc = "exit"]

\* mutex_exit(&ring->vr_u_mutex): a release, every store of the holder is
\* visible to the next holder
PushExit(p) ==
    /\ PushStep
    /\ used.pu[p].pc = "exit"
    /\ used.pu[p].sb = {}
    /\ used' = [used EXCEPT !.mutex = IF @ = p THEN "free" ELSE @,
                            !.pu[p].pc = "idle"]

\* One buffered store of a pushing CPU reaches guest memory
StoreVisible(p) ==
    /\ PushStep
    /\ \E st \in used.pu[p].sb :
         used' = [used EXCEPT
            !.pu[p].sb = @ \ {st},
            !.idx = IF st.loc = "idx" THEN st.val ELSE @,
            !.ring = IF st.loc = "idx" THEN @
                     ELSE [@ EXCEPT ![st.slot] =
                             IF st.loc = "id" THEN [@ EXCEPT !.id = st.val]
                             ELSE [@ EXCEPT !.len = st.val]]]

\* A ring in RUN; used_idx anywhere in its 16-bit range, the used entries
\* not yet written
InitPush ==
    /\ \E idx \in {"RX", "TX"}, sz \in RingSizes, u \in {0, IdxMod - 1} :
         /\ ring = [InitRing(idx) EXCEPT !.vr_state = VRS_RUN, !.vr_size = sz, !.vr_mask = sz - 1,
                                        !.vr_lease = "valid", !.mapped = TRUE,
                                        !.vr_worker_thread = TRUE,
                                        !.vr_txiov = (idx = "TX")]
         /\ used = [UsedIdle EXCEPT
                      !.idx = u, !.start = u,
                      !.ring = [sl \in 0..(sz - 1) |-> [id |-> 0, len |-> 0]]]
    /\ guest = [avail_idx |-> 0, used_flags |-> {}]
    /\ vr_lock = "free" /\ vr_cv = {}
    /\ wk = [pc |-> "run", bail |-> FALSE, renew |-> FALSE, ntx |-> 0, ret |-> "run"]
    /\ ctl = CtlIdle
    /\ rxcb = [pc |-> "idle"]
    /\ nic = [inflight |-> 0, pc |-> "idle"]
    /\ link = [l_destroyed |-> FALSE, l_force_tx_copy |-> TRUE,
               l_notify_ioport |-> FALSE]
    /\ proc = [exiting |-> FALSE]
    /\ panic = "none"
    /\ pop = PopIdle
    /\ ss = SsIdle
    /\ rx = RxIdle
    /\ tx = TxIdle

NextPush ==
    \/ \E p \in Pushers : PushCall(p)
    \/ \E p \in Pushers : PushEnter(p)
    \/ \E p \in Pushers : PushStore(p)
    \/ \E p \in Pushers : PushFence(p)
    \/ \E p \in Pushers : PushPublish(p)
    \/ \E p \in Pushers : PushExit(p)
    \/ \E p \in Pushers : StoreVisible(p)

SpecPush == InitPush /\ [][NextPush]_vars

\* Entry number s (from 1) of the pushes, in the order they took vr_u_mutex,
\* is due at this slot of the used ring
SlotOf(s) == ((used.start + s - 1) % 65536) % ring.vr_size

\* The number of entries the guest sees as published
Published == (used.idx - used.start + 65536) % 65536

UsedPublishedWritten ==
    /\ Published <= Len(used.plog)
    /\ \A s \in 1..Len(used.plog) :
         s <= Published => used.ring[SlotOf(s)] = used.plog[s].elem

\* C10 witness: the index store of a push of two entries is visible; the
\* thread has not left vq_pushchain_mrgrx() yet.
UsedPublishedWitness ==
    \E p \in Pushers :
      /\ used.pu[p].pc = "exit" /\ used.pu[p].k = 2
      /\ used.pu[p].sb = {}
      /\ Published = 2

----------------------------------------------------------------------------
(* The control surface of one minor: viona_ioctl() and viona_ioc_delete()   *)
(* called from two threads, serialised by ss_lock except where delete       *)
(* drops it.  Both rings are present; their workers are reduced to the      *)
(* steps that change vr_state.                                               *)

\* Feature bits the ioctl threads ask for: the checksum and TSO bits, one
\* other host capability, one bit the host does not offer
FeatureBits == {"CSUM", "GUEST_CSUM", "GUEST_TSO4", "HOST_TSO4", "MRG_RXBUF",
                "RING_EVENT_IDX"}

VIONA_S_HOSTCAPS ==
    {"GUEST_CSUM", "MAC", "GUEST_TSO4", "MRG_RXBUF", "STATUS",
     "RING_NOTIFY_ON_EMPTY", "RING_INDIRECT_DESC"}

\* l_features_hw as viona_get_mac_capab() leaves it
HwFeatures == {{}, {"CSUM"}, {"CSUM", "HOST_TSO4"}}

\* VNA_IOC_GET_FEATURES: val = VIONA_S_HOSTCAPS | link->l_features_hw
GetFeatures(hw) == VIONA_S_HOSTCAPS \cup hw

\* Contrast for FeaturesNegotiated: TSO bits kept whatever the checksum bits.
set_features_keeping_tso(m, hw) == m \cap GetFeatures(hw)

\* VNA_IOC_SET_FEATURES: the value stored in link->l_features
SetFeatures(m, hw) ==
    LET v1 == m \cap (VIONA_S_HOSTCAPS \cup hw)
        v2 == IF "CSUM" \notin v1 THEN v1 \ {"HOST_TSO4"} ELSE v1
    IN  IF "GUEST_CSUM" \notin v2 THEN v2 \ {"GUEST_TSO4"} ELSE v2

\* Contrast for IoctlGated: a check that overlooks l_destroyed.
link_alive_ignoring_destroyed(s) == s.ss_link # "NULL" /\ ~s.release_reqd

\* viona_ioctl(): "(link = ss->ss_link) == NULL || link->l_destroyed ||
\* vmm_drv_release_reqd(link->l_vm_hold)" is false
LinkAlive(s) == s.ss_link # "NULL" /\ ~s.l_destroyed /\ ~s.release_reqd

\* Contrast for DeleteOnce: a delete that does not look at l_destroyed.
delete_entry_unguarded(s) == IF s.ss_link = "NULL" THEN "done" ELSE "go"

\* viona_ioc_delete(): the two early returns
DeleteEntry(s) ==
    IF s.ss_link = "NULL" THEN "done"
    ELSE IF s.l_destroyed THEN "again" ELSE "go"

\* Contrast for DeleteOrder: a reset that does not wait for the worker.
ring_reset_never_waits(r) == TRUE

\* viona_ring_reset(): "while (ring->vr_state != VRS_RESET)" is over
RingResetDone(r) == r.vr_state = VRS_RESET

\* Ring indices handed to the MSI and interrupt ioctls: the TX ring, and one
\* past the rings of the link
MsiIndices == {VIONA_VQ_MAX - 1, VIONA_VQ_MAX}

\* The thread is about to return err from op: viona_ioctl() before its
\* mutex_exit(&ss->ss_lock), viona_ioc_delete() after it
ThrReturn(s, t, op, err) ==
    [s EXCEPT !.thr[t] = [ThrIdle EXCEPT !.pc = "ret", !.op = op, !.err = err],
              !.ss_lock = IF op = "delete" THEN "free" ELSE t]

LinkStep ==
    /\ panic = "none"
    /\ UNCHANGED <<ring, vr_lock, vr_cv, wk, ctl, rxcb, nic, link, guest, proc,
                   panic, pop, tx, used, rx>>

\* What the control surface leaves alone
LinkRest ==
    /\ ring = InitRing("RX")
    /\ vr_lock = "free" /\ vr_cv = {}
    /\ wk = [pc |-> "none", bail |-> FALSE, renew |-> FALSE, ntx |-> 0, ret |-> "init"]
    /\ ctl = CtlIdle
    /\ rxcb = [pc |-> "idle"]
    /\ nic = [inflight |-> 0, pc |-> "idle"]
    /\ link = [l_destroyed |-> FALSE, l_force_tx_copy |-> TRUE,
               l_notify_ioport |-> FALSE]
    /\ guest = [avail_idx |-> 0, used_flags |-> {}]
    /\ proc = [exiting |-> FALSE]
    /\ panic = "none"
    /\ pop = PopIdle
    /\ tx = TxIdle
    /\ used = UsedIdle
    /\ rx = RxIdle

\* An ioctl other than CREATE and DELETE enters viona_ioctl()
IoctlEnter(t) ==
    /\ LinkStep
    /\ ss.thr[t].pc = "idle"
    /\ ss.ss_lock = "free"

\* VNA_IOC_GET_FEATURES
LinkGetFeatures(t) ==
    /\ IoctlEnter(t)
    /\ ss' = IF ~LinkAlive(ss) THEN ThrReturn(ss, t, "get_features", "ENXIO")
             ELSE [ThrReturn(ss, t, "get_features", "0") EXCEPT
                      !.thr[t].val = GetFeatures(ss.l_features_hw)]

\* VNA_IOC_SET_FEATURES
LinkSetFeatures(t) ==
    /\ IoctlEnter(t)
    /\ \E m \in ss.masks :
         ss' = IF ~LinkAlive(ss) THEN ThrReturn(ss, t, "set_features", "ENXIO")
               ELSE [ThrReturn(ss, t, "set_features", "0") EXCEPT
                        !.thr[t].val = m,
                        !.l_features = SetFeatures(m, ss.l_features_hw)]

\* VNA_IOC_RING_INIT -> viona_ioc_ring_init()
LinkRingInit(t) ==
    /\ IoctlEnter(t)
    /\ \E i \in 0..VIONA_VQ_MAX, qsz \in {0, 2}, renewOk, mapOk, thrOk \in BOOLEAN :
         ss' = IF ~LinkAlive(ss) THEN ThrReturn(ss, t, "ring_init", "ENXIO")
               ELSE IF i >= VIONA_VQ_MAX \/ ~QsizeOk(qsz)
               THEN ThrReturn(ss, t, "ring_init", "EINVAL")
               ELSE IF ss.l_vrings[i].vr_state # VRS_RESET
               THEN ThrReturn(ss, t, "ring_init", "EBUSY")
               ELSE LET res == viona_ioc_ring_init(ss.l_vrings[i], qsz, renewOk,
                                                   mapOk, thrOk, TRUE)
                    IN  [ThrReturn(ss, t, "ring_init", res.err) EXCEPT
                            !.l_vrings[i] = res.ring]

\* VNA_IOC_RING_KICK -> viona_ioc_ring_kick()
LinkRingKick(t) ==
    /\ IoctlEnter(t)
    /\ \E i \in 0..VIONA_VQ_MAX :
         ss' = IF ~LinkAlive(ss) THEN ThrReturn(ss, t, "ring_kick", "ENXIO")
               ELSE IF i >= VIONA_VQ_MAX
               THEN ThrReturn(ss, t, "ring_kick", "EINVAL")
               ELSE LET res == viona_ioc_ring_kick(ss.l_vrings[i])
                    IN  [ThrReturn(ss, t, "ring_kick", res.err) EXCEPT
                            !.l_vrings[i] = res.ring]

\* VNA_IOC_RING_SET_MSI -> viona_ioc_ring_set_msi()
LinkRingSetMsi(t) ==
    /\ IoctlEnter(t)
    /\ \E i \in MsiIndices, addr \in {0, 1} :
         ss' = IF ~LinkAlive(ss) THEN ThrReturn(ss, t, "ring_set_msi", "ENXIO")
               ELSE IF i >= VIONA_VQ_MAX
               THEN ThrReturn(ss, t, "ring_set_msi", "EINVAL")
               ELSE [ThrReturn(ss, t, "ring_set_msi", "0") EXCEPT
                        !.vr_msi_addr[i] = addr]

\* VNA_IOC_RING_INTR_CLR -> viona_ioc_ring_intr_clear()
LinkRingIntrClear(t) ==
    /\ IoctlEnter(t)
    /\ \E i \in MsiIndices :
         ss' = IF ~LinkAlive(ss) THEN ThrReturn(ss, t, "ring_intr_clear", "ENXIO")
               ELSE IF i >= VIONA_VQ_MAX
               THEN ThrReturn(ss, t, "ring_intr_clear", "EINVAL")
               ELSE [ThrReturn(ss, t, "ring_intr_clear", "0") EXCEPT
                        !.vr_intr_enabled[i] = 0]

\* VNA_IOC_INTR_POLL -> viona_ioc_intr_poll()
LinkIntrPoll(t) ==
    /\ IoctlEnter(t)
    /\ ss' = IF ~LinkAlive(ss) THEN ThrReturn(ss, t, "intr_poll", "ENXIO")
             ELSE [ThrReturn(ss, t, "intr_poll", "0") EXCEPT
                      !.thr[t].val = {i \in 0..(VIONA_VQ_MAX - 1) :
                                        ss.vr_intr_enabled[i] # 0}]

\* VNA_IOC_SET_NOTIFY_IOP -> viona_ioc_set_notify_ioport(); hookOk is the
\* outcome of vmm_drv_ioport_hook()
LinkSetNotifyIoport(t) ==
    /\ IoctlEnter(t)
    /\ \E ioport \in {0, 1}, hookOk \in BOOLEAN :
         ss' = IF ~LinkAlive(ss)
               THEN ThrReturn(ss, t, "set_notify_ioport", "ENXIO")
               ELSE IF ioport # 0 /\ ~hookOk
               THEN [ThrReturn(ss, t, "set_notify_ioport", "EIO") EXCEPT
                        !.l_notify_ioport = 0]
               ELSE [ThrReturn(ss, t, "set_notify_ioport", "0") EXCEPT
                        !.l_notify_ioport = ioport]

\* VNA_IOC_RING_RESET -> viona_ring_reset(ring, B_TRUE), up to its wait; the
\* thread waits with ss_lock held
LinkRingReset(t) ==
    /\ IoctlEnter(t)
    /\ \E i \in 0..VIONA_VQ_MAX :
         ss' = IF ~LinkAlive(ss) THEN ThrReturn(ss, t, "ring_reset", "ENXIO")
               ELSE IF i >= VIONA_VQ_MAX
               THEN ThrReturn(ss, t, "ring_reset", "EINVAL")
               ELSE IF RingResetDone(ss.l_vrings[i])
               THEN ThrReturn(ss, t, "ring_reset", "0")
               ELSE [ss EXCEPT
                        !.l_vrings[i] = viona_ring_reset_flags(@),
                        !.ss_lock = t,
                        !.thr[t] = [ThrIdle EXCEPT !.pc = "reset_wait",
                                       !.op = "ring_reset", !.k = i]]

\* viona_ring_reset(ring, B_TRUE): woken with the ring in RESET
LinkRingResetWake(t) ==
    /\ LinkStep
    /\ ss.thr[t].pc = "reset_wait"
    /\ RingResetDone(ss.l_vrings[ss.thr[t].k])
    /\ ss' = [ThrReturn(ss, t, "ring_reset", "0") EXCEPT
                !.l_vrings[ss.thr[t].k] = viona_ring_lease_drop(@)]

\* viona_ring_reset(ring, B_TRUE): cv_wait_sig() interrupted
LinkRingResetSig(t) ==
    /\ LinkStep
    /\ ss.thr[t].pc = "reset_wait"
    /\ ~RingResetDone(ss.l_vrings[ss.thr[t].k])
    /\ ss' = ThrReturn(ss, t, "ring_reset", "EINTR")

\* viona_ioctl(): mutex_exit(&ss->ss_lock); return (err).  The thread is
\* back in userland
ThreadReturn(t) ==
    /\ LinkStep
    /\ ss.thr[t].pc = "ret"
    /\ ss' = [ss EXCEPT !.thr[t] = ThrIdle,
                        !.ss_lock = IF @ = t THEN "free" ELSE @]

\* VNA_IOC_DELETE -> viona_ioc_delete(ss, B_FALSE): the early returns, or
\* l_destroyed = B_TRUE and viona_ioc_set_notify_ioport(link, 0)
DeleteBegin(t) ==
    /\ LinkStep
    /\ ss.thr[t].pc = "idle"
    /\ ss.ss_lock = "free"
    /\ ss' = CASE DeleteEntry(ss) = "done" -> ThrReturn(ss, t, "delete", "0")
               [] DeleteEntry(ss) = "again" -> ThrReturn(ss, t, "delete", "EAGAIN")
               [] OTHER ->
                    [ss EXCEPT !.l_destroyed = TRUE,
                               !.l_notify_ioport = 0,
                               !.teardowns = @ + 1,
                               !.thr[t] = [ThrIdle EXCEPT !.pc = "del_reset",
                                              !.op = "delete", !.k = 0]]

\* The delete goes on to the next ring, or to the teardown
DeleteNextRing(th) ==
    IF th.k + 1 < VIONA_VQ_MAX THEN [th EXCEPT !.pc = "del_reset", !.k = @ + 1]
    ELSE [th EXCEPT !.pc = "del_mac"]

\* viona_ioc_delete(): viona_ring_reset(&link->l_vrings[k], B_FALSE) up to
\* its wait
DeleteReset(t) ==
    /\ LinkStep
    /\ ss.thr[t].pc = "del_reset"
    /\ LET k == ss.thr[t].k
       IN  ss' = IF ss.l_vrings[k].vr_state = VRS_RESET
                 THEN [ss EXCEPT !.thr[t] = DeleteNextRing(@)]
                 ELSE [ss EXCEPT !.l_vrings[k] = viona_ring_reset_flags(@),
                                 !.thr[t].pc = "del_wait"]

\* viona_ring_reset(ring, B_FALSE): woken with the ring in RESET
DeleteResetWake(t) ==
    /\ LinkStep
    /\ ss.thr[t].pc = "del_wait"
    /\ RingResetDone(ss.l_vrings[ss.thr[t].k])
    /\ ss' = [ss EXCEPT !.l_vrings[ss.thr[t].k] = viona_ring_lease_drop(@),
                        !.thr[t] = DeleteNextRing(@)]

\* viona_ioc_delete(): mutex_enter(&ss->ss_lock); viona_rx_clear(),
\* mac_client_close(), mac_close()
DeleteMacClose(t) ==
    /\ LinkStep
    /\ ss.thr[t].pc = "del_mac"
    /\ ss.ss_lock = "free"
    /\ ss' = [ss EXCEPT !.ss_lock = t, !.l_mch = "NULL", !.l_mh = "NULL",
                        !.thr[t].pc = "del_hold"]

\* viona_ioc_delete(): vmm_drv_rele(), l_neti = NULL, viona_ring_free(),
\* ss->ss_link = NULL, mutex_exit(&ss->ss_lock)
DeleteHoldRele(t) ==
    /\ LinkStep
    /\ ss.thr[t].pc = "del_hold"
    /\ ss' = [ss EXCEPT !.vm_holds = IF ss.l_vm_hold # "NULL" THEN @ - 1 ELSE @,
                        !.l_vm_hold = "NULL",
                        !.l_neti = "NULL",
                        !.ss_link = "NULL",
                        !.ss_lock = "free",
                        !.thr[t].pc = "del_neti"]

\* viona_ioc_delete(): list_remove(), viona_neti_rele(nip), kmem_free(link)
DeleteNetiRele(t) ==
    /\ LinkStep
    /\ ss.thr[t].pc = "del_neti"
    /\ ss' = [ThrReturn(ss, t, "delete", "0") EXCEPT
                !.neti_refs = @ - 1, !.freed = @ + 1]

\* The worker of ring i: viona_worker() from its entry to INIT, or to the
\* cleanup block when a stop was already requested
LinkWorkerStart(i) ==
    /\ LinkStep
    /\ ss.ss_link # "NULL"
    /\ ss.l_vrings[i].vr_state = VRS_SETUP
    /\ ss' = [ss EXCEPT !.l_vrings[i] =
                IF VRSF_REQ_STOP \in @.vr_state_flags
                THEN viona_worker_cleanup(@)
                ELSE [@ EXCEPT !.vr_state = VRS_INIT]]

\* viona_worker(): INIT -> RUN on REQ_START
LinkWorkerRun(i) ==
    /\ LinkStep
    /\ ss.ss_link # "NULL"
    /\ ss.l_vrings[i].vr_state = VRS_INIT
    /\ ss.l_vrings[i].vr_state_flags = {VRSF_REQ_START}
    /\ ss' = [ss EXCEPT !.l_vrings[i] = viona_worker_run(@)]

\* viona_worker(): the cleanup block, reached on REQ_STOP, on the exit of the
\* process or on a lease that cannot be renewed
LinkWorkerStop(i) ==
    /\ LinkStep
    /\ ss.ss_link # "NULL"
    /\ ss.l_vrings[i].vr_state \in {VRS_INIT, VRS_RUN}
    /\ ss' = [ss EXCEPT !.l_vrings[i] = viona_worker_cleanup(@)]

\* viona_notify_wcb(): the guest writes a ring index to the hooked ioport
LinkNotifyKick(i) ==
    /\ LinkStep
    /\ ss.ss_link # "NULL"
    /\ ss.l_notify_ioport # 0
    /\ ss' = [ss EXCEPT !.l_vrings[i] = viona_ioc_ring_kick(@).ring]

\* viona_intr_ring(): a running ring raises its interrupt
LinkIntr(i) ==
    /\ LinkStep
    /\ ss.ss_link # "NULL"
    /\ ss.l_vrings[i].vr_state = VRS_RUN
    /\ ss.vr_intr_enabled[i] = 0
    /\ ss' = [ss EXCEPT !.vr_intr_enabled[i] = 1]

\* The hypervisor asks for its holds back: vmm_drv_release_reqd() turns true
HoldReleaseReqd ==
    /\ LinkStep
    /\ ss.ss_link # "NULL"
    /\ ~ss.release_reqd
    /\ ss' = [ss EXCEPT !.release_reqd = TRUE]

\* After viona_ioc_create(): a link with both rings in RESET, on a NIC
\* with the capabilities hw; masks are the feature sets userland asks for
viona_ioc_create(hw, masks) ==
    [ss_lock |-> "free", ss_link |-> "link",
     thr |-> [t \in Threads |-> ThrIdle],
     masks |-> masks,
     l_destroyed |-> FALSE, l_notify_ioport |-> 0,
     l_mch |-> "open", l_mh |-> "open",
     l_vm_hold |-> "held", l_neti |-> "nip",
     l_features |-> {}, l_features_hw |-> hw,
     l_vrings |-> [i \in 0..(VIONA_VQ_MAX - 1) |->
                     InitRing(IF i = 0 THEN "RX" ELSE "TX")],
     vr_msi_addr |-> [i \in 0..(VIONA_VQ_MAX - 1) |-> 0],
     vr_intr_enabled |-> [i \in 0..(VIONA_VQ_MAX - 1) |-> 0],
     release_reqd |-> FALSE,
     vm_holds |-> 1, neti_refs |-> 1, freed |-> 0, teardowns |-> 0]

\* The link on a NIC with checksum offload and LSO; userland negotiates
\* nothing or both host features
InitLink ==
    /\ ss = viona_ioc_create({"CSUM", "HOST_TSO4"},
                             {{}, {"CSUM", "HOST_TSO4"}})
    /\ LinkRest

\* Feature negotiation alone: any NIC, any request
InitFeat ==
    /\ \E hw \in HwFeatures : ss = viona_ioc_create(hw, SUBSET FeatureBits)
    /\ LinkRest

NextFeat ==
    \/ \E t \in Threads : LinkGetFeatures(t)
    \/ \E t \in Threads : LinkSetFeatures(t)
    \/ \E t \in Threads : ThreadReturn(t)

SpecFeat == InitFeat /\ [][NextFeat]_vars

NextLink ==
    \/ \E t \in Threads : LinkGetFeatures(t)
    \/ \E t \in Threads : LinkSetFeatures(t)
    \/ \E t \in Threads : LinkRingInit(t)
    \/ \E t \in Threads : LinkRingKick(t)
    \/ \E t \in Threads : LinkRingSetMsi(t)
    \/ \E t \in Threads : LinkRingIntrClear(t)
    \/ \E t \in Threads : LinkIntrPoll(t)
    \/ \E t \in Threads : LinkSetNotifyIoport(t)
    \/ \E t \in Threads : LinkRingReset(t)
    \/ \E t \in Threads : LinkRingResetWake(t)
    \/ \E t \in Threads : LinkRingResetSig(t)
    \/ \E t \in Threads : ThreadReturn(t)
    \/ \E t \in Threads : DeleteBegin(t)
    \/ \E t \in Threads : DeleteReset(t)
    \/ \E t \in Threads : DeleteResetWake(t)
    \/ \E t \in Threads : DeleteMacClose(t)
    \/ \E t \in Threads : DeleteHoldRele(t)
    \/ \E t \in Threads : DeleteNetiRele(t)
    \/ \E i \in 0..(VIONA_VQ_MAX - 1) : LinkWorkerStart(i)
    \/ \E i \in 0..(VIONA_VQ_MAX - 1) : LinkWorkerRun(i)
    \/ \E i \in 0..(VIONA_VQ_MAX - 1) : LinkWorkerStop(i)
    \/ \E i \in 0..(VIONA_VQ_MAX - 1) : LinkNotifyKick(i)
    \/ \E i \in MsiIndices \ {VIONA_VQ_MAX} : LinkIntr(i)
    \/ HoldReleaseReqd

SpecLink == InitLink /\ [][NextLink]_vars

\* The threads inside viona_ioc_delete() past its early returns
Deleting == {t \in Threads : ss.thr[t].pc \in
                {"del_reset", "del_wait", "del_mac", "del_hold", "del_neti"}}

\* C12: a delete that finds no link returns 0, one that finds the link being
\* destroyed returns EAGAIN, both without touching the soft state; a delete
\* that began the teardown returns 0.  At most one thread ever tears down,
\* and the hypervisor hold, the netstack reference and the link memory are
\* released once.
DeleteOnce ==
    /\ [][\A t \in Threads :
            /\ (ss.thr[t].pc = "idle" /\ ss'.thr[t].pc = "ret"
                /\ ss'.thr[t].op = "delete") =>
                  /\ [ss' EXCEPT !.thr = ss.thr] = ss
                  /\ ss.ss_link = "NULL" => ss'.thr[t].err = "0"
                  /\ ss.ss_link # "NULL" =>
                        ss.l_destroyed /\ ss'.thr[t].err = "EAGAIN"
            /\ (ss.thr[t].pc = "idle" /\ ss'.thr[t].pc = "del_reset") =>
                  ss.ss_link # "NULL" /\ ~ss.l_destroyed /\ Deleting = {}
            /\ (t \in Deleting /\ ss'.thr[t].pc = "ret") =>
                  /\ ss'.thr[t].op = "delete" /\ ss'.thr[t].err = "0"
                  /\ ss'.ss_link = "NULL"]_vars
    /\ [](/\ Cardinality(Deleting) <= 1
          /\ ss.teardowns <= 1
          /\ ss.vm_holds \in {0, 1} /\ ss.neti_refs \in {0, 1}
          /\ ss.freed <= 1
          /\ ss.freed = 1 => ss.ss_link = "NULL")

\* C12 witness: one thread is being told EAGAIN while the other waits, in
\* its delete, for a ring to stop; and nothing of the link was freed.
DeleteOnceWitness ==
    \E t, u \in Threads :
      /\ ss.thr[t].pc = "ret" /\ ss.thr[t].op = "delete"
      /\ ss.thr[t].err = "EAGAIN"
      /\ ss.thr[u].pc = "del_wait"
      /\ ss.vm_holds = 1

\* Both rings are in RESET
RingsReset == \A i \in 0..(VIONA_VQ_MAX - 1) : ss.l_vrings[i].vr_state = VRS_RESET

\* C13: the teardown goes in order.  The ioport hook is gone once
\* l_destroyed is set; delete turns to the TX ring with the RX ring in RESET;
\* the MAC client is closed only with both rings in RESET; the hypervisor
\* hold is released only with the MAC client closed and both rings in RESET;
\* the netstack reference is released only after the hold.
DeleteOrder ==
    /\ ss.l_destroyed => ss.l_notify_ioport = 0
    /\ \A t \in Threads :
         /\ (ss.thr[t].pc \in {"del_reset", "del_wait"} /\ ss.thr[t].k = 1) =>
               ss.l_vrings[0].vr_state = VRS_RESET
         /\ ss.thr[t].pc \in {"del_mac", "del_hold", "del_neti"} => RingsReset
    /\ ss.l_mch = "NULL" => ss.l_destroyed /\ RingsReset
    /\ ss.l_vm_hold = "NULL" => ss.l_mch = "NULL" /\ ss.l_mh = "NULL" /\ RingsReset
    /\ ss.neti_refs = 0 => ss.l_vm_hold = "NULL" /\ ss.vm_holds = 0

\* C13 witness: both rings had been running and were stopped by the delete,
\* which has closed the MAC client and is about to release the hold.
DeleteOrderWitness ==
    \E t \in Threads :
      /\ ss.thr[t].pc = "del_hold"
      /\ \A i \in 0..(VIONA_VQ_MAX - 1) : ss.l_vrings[i].vr_size = 2
      /\ ss.l_vm_hold = "held"

\* C15: with the link gone, being destroyed, or its hold being released,
\* every ioctl but DELETE returns ENXIO and leaves link and rings as they
\* were, and ENXIO is returned in those cases only; once l_destroyed is set
\* no ring leaves RESET.
IoctlGated ==
    /\ [][\A t \in Threads :
            (ss.thr[t].pc = "idle" /\ ss'.thr[t].pc \in {"ret", "reset_wait"}
             /\ ss'.thr[t].op # "delete") =>
               /\ (ss.ss_link = "NULL" \/ ss.l_destroyed \/ ss.release_reqd) =>
                     /\ ss'.thr[t].pc = "ret" /\ ss'.thr[t].err = "ENXIO"
                     /\ [ss' EXCEPT !.thr = ss.thr, !.ss_lock = ss.ss_lock] = ss
               /\ ss'.thr[t].err = "ENXIO" =>
                     ss.ss_link = "NULL" \/ ss.l_destroyed \/ ss.release_reqd]_vars
    /\ [][\A i \in 0..(VIONA_VQ_MAX - 1) :
            (ss.l_destroyed /\ ss.l_vrings[i].vr_state = VRS_RESET) =>
               ss'.l_vrings[i].vr_state = VRS_RESET]_vars

\* C15 witness: ring_init is being refused with ENXIO while the delete of
\* the other thread waits for a ring to stop.
IoctlGatedWitness ==
    \E t, u \in Threads :
      /\ ss.thr[t].pc = "ret" /\ ss.thr[t].op = "ring_init"
      /\ ss.thr[t].err = "ENXIO"
      /\ ss.thr[u].pc = "del_wait"

\* C18: set_features(m) stores m cut down to what get_features reports,
\* less HOST_TSO4 when CSUM is not in the result and less GUEST_TSO4 when
\* GUEST_CSUM is not; so whatever was asked for, in whatever order,
\* HOST_TSO4 comes with CSUM, GUEST_TSO4 with GUEST_CSUM, and the negotiated
\* set is within what get_features reports.
FeaturesNegotiated ==
    /\ [][\A t \in Threads :
            (ss.thr[t].pc = "idle" /\ ss'.thr[t].pc = "ret"
             /\ ss'.thr[t].op = "set_features" /\ ss'.thr[t].err = "0") =>
               LET m == ss'.thr[t].val
                   c == {f \in m : f \in VIONA_S_HOSTCAPS \/ f \in ss.l_features_hw}
               IN  ss'.l_features =
                      {f \in c : /\ f = "HOST_TSO4" => "CSUM" \in c
                                 /\ f = "GUEST_TSO4" => "GUEST_CSUM" \in c}]_vars
    /\ [][\A t \in Threads :
            (ss'.thr[t].pc = "ret" /\ ss'.thr[t].op = "get_features"
             /\ ss'.thr[t].err = "0") =>
               /\ ss'.thr[t].val = VIONA_S_HOSTCAPS \cup ss.l_features_hw
               /\ ss.l_features \subseteq ss'.thr[t].val]_vars
    /\ [](/\ "HOST_TSO4" \in ss.l_features => "CSUM" \in ss.l_features
          /\ "GUEST_TSO4" \in ss.l_features => "GUEST_CSUM" \in ss.l_features
          /\ ss.l_features \subseteq VIONA_S_HOSTCAPS \cup ss.l_features_hw)

\* C18 witness: on a NIC with LSO, HOST_TSO4 was asked for without CSUM and
\* GUEST_TSO4 with GUEST_CSUM: the first is dropped, the second kept.
FeaturesWitness ==
    \E t \in Threads :
      /\ ss.thr[t].pc = "ret" /\ ss.thr[t].op = "set_features"
      /\ ss.thr[t].val = {"HOST_TSO4", "GUEST_TSO4", "GUEST_CSUM", "RING_EVENT_IDX"}
      /\ ss.l_features_hw = {"CSUM", "HOST_TSO4"}
      /\ ss.l_features = {"GUEST_TSO4", "GUEST_CSUM"}

\* ------------------------------------------------------------------------
\* Receive: viona_rx_common(), viona_recv_plain(), viona_recv_merged()
\*
\* rx holds one RX ring as the receive path sees it: the chains the guest
\* made available and vq_popchain() has not handed out yet (avail: cookie
\* and segment lengths), guest memory behind every chain (mem: one byte
\* sequence per segment, -1 where the device has not written), the used
\* entries pushed so far, and the frame in hand.  A frame is a chain of
\* mblks whose bytes are numbered 1, 2, ... so that a byte lost, repeated
\* or out of place shows; padding is 0.
\* ------------------------------------------------------------------------

MIN_BUF_SIZE == 60

VLAN_TAGSZ == 4

NEED_VLAN_PAD_SIZE == MIN_BUF_SIZE - VLAN_TAGSZ

VTNET_MAXSEGS == 32

\* sizeof (struct virtio_net_mrgrxhdr)
MrgHdrSz == 12

VIRTIO_NET_HDR_F_DATA_VALID == 2

VIRTIO_NET_HDR_GSO_TCPV4 == 1

\* DB_LSOMSS() of the one LSO frame of the model
LsoMss == 32

\* Frames handed to viona_rx_common() at most
MaxRxFrames == 1

\* Chains in the avail ring at most
MaxRxChains == 2

MAX(a, b) == IF a > b THEN a ELSE b

RECURSIVE Flat(_)
\* The bytes of a chain of mblks, or of the segments of a guest chain
Flat(segs) == IF segs = << >> THEN << >> ELSE Head(segs) \o Flat(Tail(segs))

\* msgsize()
msgsize(mp) == Len(Flat(mp))

RECURSIVE MkFrame(_, _)
\* A chain of mblks of the given lengths, bytes numbered from base + 1
MkFrame(lens, base) ==
    IF lens = << >> THEN << >>
    ELSE <<[j \in 1..Head(lens) |-> base + j]>>
            \o MkFrame(Tail(lens), base + Head(lens))

\* The mblk lengths of the frames MAC hands over: an ARP request in one and
\* in two mblks, a frame that lost its VLAN tag, minimum-size frames, one of
\* 100 bytes
FrameShapes == {<<42>>, <<14, 28>>, <<56>>, <<60>>, <<14, 50>>, <<100>>}

\* DB_CKSUMFLAGS() a frame can carry: HW_LSO only on the large frame, and
\* only if GUEST_TSO4 was negotiated (mac_hw_emul() splits it otherwise)
CksumFlags(lens, features) ==
    {fl \in SUBSET {"HCK_FULLCKSUM_OK", "HW_LSO"} :
        "HW_LSO" \in fl =>
            /\ "GUEST_TSO4" \in features
            /\ SumLens(lens) > MIN_BUF_SIZE + LsoMss}

\* The segment lengths of the chains a guest posts for receive
ChainShapes ==
    {<<5>>, <<70>>, <<10, 60>>, <<72>>, <<12, 60>>, <<32, 20>>,
     <<12, 30, 40>>, <<128>>}

\* What was negotiated of the features the receive path looks at
RxFeatures ==
    {f \in SUBSET {"MRG_RXBUF", "GUEST_CSUM", "GUEST_TSO4"} :
        "GUEST_TSO4" \in f => "GUEST_CSUM" \in f}

\* Guest memory of a chain before the device writes it
StaleChain(lens) == [k \in 1..Len(lens) |-> [j \in 1..lens[k] |-> 0 - 1]]

\* bcopy()/bzero() of data to offset off of segment k of chain c
MemWrite(mem, c, k, off, data) ==
    [mem EXCEPT ![c][k] =
        [j \in 1..Len(@) |->
            IF j > off /\ j <= off + Len(data) THEN data[j - off] ELSE @[j]]]

Zeros(n) == [j \in 1..n |-> 0]

RECURSIVE copy_seek(_, _)
\* viona_copy_mblk(), seeking past already-consumed data: the mblks left
\* and the offset in the first
copy_seek(mp, seek) ==
    IF seek > 0 /\ mp # << >>
    THEN LET chunk == Len(Head(mp))
         IN  IF chunk > seek THEN [mp |-> mp, off |-> seek]
             ELSE copy_seek(Tail(mp), seek - chunk)
    ELSE [mp |-> mp, off |-> 0]

RECURSIVE copy_loop(_, _, _, _)
\* viona_copy_mblk(), the copy loop: the bytes copied and *end
copy_loop(mp, off, len, out) ==
    IF mp = << >> THEN [data |-> out, end |-> TRUE]
    ELSE LET chunk == Len(Head(mp)) - off
             to_copy == MIN(chunk, len)
             out2 == out \o SubSeq(Head(mp), off + 1, off + to_copy)
             mp2 == IF chunk = to_copy THEN Tail(mp) ELSE mp
             off2 == IF chunk = to_copy THEN 0 ELSE off
         IN  IF len - to_copy = 0
             THEN [data |-> out2, end |-> (mp2 = << >>)]
             ELSE copy_loop(mp2, off2, len - to_copy, out2)

\* viona_copy_mblk(mp, seek, buf, len, &end)
viona_copy_mblk(mp, seek, len) ==
    LET s == copy_seek(mp, seek) IN copy_loop(s.mp, s.off, len, << >>)

\* Contrast for LsoMerged: a header that never announces a large segment.
hdr_bytes_no_gso(features, cksum, mss) ==
    << IF "GUEST_CSUM" \in features /\ "HCK_FULLCKSUM_OK" \in cksum
       THEN VIRTIO_NET_HDR_F_DATA_VALID ELSE 0,
       0, 0, 0, 0, 0, 0, 0, 0, 0 >>

\* The header as it lies in guest memory: flags, gso_type, hdr_len,
\* gso_size, csum_start, csum_offset (little endian); mss is DB_LSOMSS(mp)
HdrBytes(features, cksum, mss) ==
    LET csum == "GUEST_CSUM" \in features
        lso == csum /\ "GUEST_TSO4" \in features /\ "HW_LSO" \in cksum
        valid == csum /\ "HCK_FULLCKSUM_OK" \in cksum
    IN  << IF valid THEN VIRTIO_NET_HDR_F_DATA_VALID ELSE 0,
           IF lso THEN VIRTIO_NET_HDR_GSO_TCPV4 ELSE 0,
           0, 0,
           IF lso THEN mss % 256 ELSE 0,
           IF lso THEN mss \div 256 ELSE 0,
           0, 0, 0, 0 >>

\* No frame in hand, nothing in the avail ring
RxRing(features, chains, aidx) ==
    [pc |-> "idle", l_features |-> features,
     avail |-> [k \in 1..Len(chains) |-> [cookie |-> k - 1, segs |-> chains[k]]],
     mem |-> [c \in 0..(Len(chains) - 1) |-> StaleChain(chains[c + 1])],
     vr_cur_aidx |-> aidx, used_idx |-> aidx, used |-> << >>,
     mp |-> << >>, cksum |-> {}, lsomss |-> LsoMss, frame |-> << >>,
     size |-> 0, err |-> "none", nframes |-> 0, npushed |-> 0]

\* A step of the receive path
RxStep ==
    UNCHANGED <<ring, vr_lock, vr_cv, wk, ctl, rxcb, nic, link, guest, proc,
                panic, pop, tx, used, ss>>

\* MAC calls viona_rx_common() with one frame
RxArrive ==
    /\ rx.pc \in {"idle", "done"} /\ rx.nframes < MaxRxFrames
    /\ \E lens \in FrameShapes :
       \E fl \in CksumFlags(lens, rx.l_features) :
         rx' = [rx EXCEPT !.pc = "common", !.mp = MkFrame(lens, 0),
                          !.frame = Flat(MkFrame(lens, 0)),
                          !.cksum = fl, !.size = 0, !.err = "none",
                          !.npushed = 0, !.nframes = @ + 1]
    /\ RxStep

\* A receive path that passes short frames on as they are
rx_pad_none(mp) == mp

\* viona_rx_common(): the VLAN padding mblk or a zeroed mblk is linked to
\* a frame below the minimum size
rx_pad(mp) ==
    LET size == msgsize(mp)
    IN  IF size = NEED_VLAN_PAD_SIZE THEN mp \o <<Zeros(VLAN_TAGSZ)>>
        ELSE IF size < MIN_BUF_SIZE THEN mp \o <<Zeros(MIN_BUF_SIZE - size)>>
        ELSE mp

\* viona_rx_common(): the frame is padded to the minimum size
RxPad ==
    /\ rx.pc = "common"
    /\ rx' = [rx EXCEPT !.pc = "recv", !.mp = rx_pad(rx.mp),
                        !.size = msgsize(rx_pad(rx.mp))]
    /\ RxStep

\* viona_rx_common(): allocb() has no memory for the padding, the frame is
\* dropped
RxPadFail ==
    /\ rx.pc = "common"
    /\ msgsize(rx.mp) < MIN_BUF_SIZE /\ msgsize(rx.mp) # NEED_VLAN_PAD_SIZE
    /\ rx' = [rx EXCEPT !.pc = "done", !.err = "ENOMEM"]
    /\ RxStep

\* vq_pushchain() and vq_pushchain_mrgrx() on this ring
RxPush(r, elems) ==
    [r EXCEPT !.used = @ \o elems,
              !.used_idx = (@ + Len(elems)) % IdxMod,
              !.npushed = Len(elems)]

RECURSIVE plain_copy(_, _, _, _, _, _)
\* viona_recv_plain(): "Copy any remaining data into subsequent buffers"
plain_copy(mem, chain, i, mp, copied, end) ==
    IF i <= Len(chain.segs) /\ ~end
    THEN LET r == viona_copy_mblk(mp, copied, chain.segs[i])
         IN  plain_copy(MemWrite(mem, chain.cookie, i, 0, r.data), chain,
                        i + 1, mp, copied + Len(r.data), r.end)
    ELSE [mem |-> mem, copied |-> copied, end |-> end]

\* viona_recv_plain(ring, mp, msz)
viona_recv_plain(r, mp, msz) ==
    IF r.avail = << >> THEN [r EXCEPT !.err = "ENOSPC"]
    ELSE
    LET chain == Head(r.avail)
        popped == [r EXCEPT !.avail = Tail(@),
                            !.vr_cur_aidx = (@ + 1) % IdxMod]
        iov0 == chain.segs[1]
        bad_frame(mem, copied) ==
            [RxPush([popped EXCEPT !.mem = mem],
                    << [id |-> chain.cookie,
                        len |-> MAX(copied, MIN_BUF_SIZE + HdrSz)] >>)
                EXCEPT !.err = "EINVAL"]
    IN  IF iov0 < HdrSz
        THEN bad_frame(MemWrite(r.mem, chain.cookie, 1, 0, Zeros(iov0)), 0)
        ELSE
        LET first == IF iov0 > HdrSz
                     THEN viona_copy_mblk(mp, 0, iov0 - HdrSz)
                     ELSE [data |-> << >>, end |-> FALSE]
            mem1 == MemWrite(r.mem, chain.cookie, 1, HdrSz, first.data)
            rest == plain_copy(mem1, chain, 2, mp, Len(first.data), first.end)
        IN  IF rest.copied # msz
            THEN bad_frame(rest.mem, rest.copied)
            ELSE [RxPush([popped EXCEPT !.mem =
                            MemWrite(rest.mem, chain.cookie, 1, 0,
                                     HdrBytes(r.l_features, r.cksum, r.lsomss))],
                         << [id |-> chain.cookie,
                             len |-> rest.copied + HdrSz] >>)
                    EXCEPT !.err = "0"]

\* The frame goes to a ring without mergeable buffers
RxRecvPlain ==
    /\ rx.pc = "recv" /\ "MRG_RXBUF" \notin rx.l_features
    /\ rx' = [viona_recv_plain(rx, rx.mp, rx.size) EXCEPT !.pc = "done"]
    /\ RxStep

\* What the slots of uelem[] that were never assigned can hold
UninitElems == {[id |-> 0, len |-> 0], [id |-> 1, len |-> 20]}

\* Assign uelem[buf_idx]
SetElem(uelem, buf_idx, e) ==
    IF buf_idx + 1 <= Len(uelem) THEN [uelem EXCEPT ![buf_idx + 1] = e]
    ELSE Append(uelem, e)

RECURSIVE merged_copy(_, _)
\* viona_recv_merged(): the inner loop over the segments of one chain
\* (st.i counts segments from 1)
merged_copy(st, mp) ==
    IF st.i <= Len(st.iov.segs) /\ ~st.end
    THEN LET r == viona_copy_mblk(mp, st.copied, st.iov.segs[st.i])
             chunk == st.chunk + Len(r.data)
         IN  merged_copy([st EXCEPT
                 !.mem = MemWrite(@, st.iov.cookie, st.i, 0, r.data),
                 !.chunk = chunk, !.copied = @ + chunk,
                 !.end = r.end, !.i = @ + 1], mp)
    ELSE st

RECURSIVE merged_loop(_, _, _)
\* viona_recv_merged(): the do-while loop over the chains
merged_loop(st, mp, msz) ==
    LET c == merged_copy(st, mp)
        u == [c EXCEPT !.uelem = SetElem(@, c.buf_idx,
                                   [id |-> c.iov.cookie, len |-> c.chunk])]
    IN  IF u.end THEN u
        ELSE IF u.buf_idx = VTNET_MAXSEGS - 1
        THEN [u EXCEPT !.err = "EOVERFLOW"]
        ELSE IF u.avail = << >>
        THEN [u EXCEPT !.err = "EMSGSIZE"]
        ELSE LET n == [u EXCEPT !.iov = Head(u.avail), !.avail = Tail(@),
                                !.aidx = (@ + 1) % IdxMod,
                                !.chunk = 0, !.i = 1, !.buf_idx = @ + 1,
                                !.bufs = @ + 1]
             IN  IF n.copied < msz THEN merged_loop(n, mp, msz) ELSE n

\* viona_recv_merged(ring, mp, msz); junk is what the stack held where
\* uelem[] is
viona_recv_merged(r, mp, msz, junk) ==
    IF r.avail = << >> THEN [r EXCEPT !.err = "ENOSPC"]
    ELSE
    LET chain == Head(r.avail)
        popped == [r EXCEPT !.avail = Tail(@),
                            !.vr_cur_aidx = (@ + 1) % IdxMod]
        iov0 == chain.segs[1]
    IN  IF iov0 < MrgHdrSz
        THEN [RxPush([popped EXCEPT !.mem =
                         MemWrite(@, chain.cookie, 1, 0, Zeros(iov0))],
                     << [id |-> chain.cookie, len |-> iov0] >>)
                EXCEPT !.err = "EINVAL"]
        ELSE
        LET first == IF iov0 > MrgHdrSz
                     THEN viona_copy_mblk(mp, 0, iov0 - MrgHdrSz)
                     ELSE [data |-> << >>, end |-> FALSE]
            st0 == [iov |-> chain, i |-> 2, avail |-> popped.avail,
                    aidx |-> popped.vr_cur_aidx,
                    mem |-> MemWrite(r.mem, chain.cookie, 1, MrgHdrSz, first.data),
                    chunk |-> Len(first.data), copied |-> Len(first.data),
                    end |-> first.end, buf_idx |-> 0, uelem |-> << >>,
                    bufs |-> 1, err |-> "0"]
            st == merged_loop(st0, mp, msz)
            uelem == [k \in 1..(st.buf_idx + 1) |->
                        LET e == IF k <= Len(st.uelem) THEN st.uelem[k] ELSE junk
                        IN  IF k = 1 THEN [e EXCEPT !.len = @ + MrgHdrSz] ELSE e]
            err == IF st.err = "0" /\ st.copied # msz THEN "EINVAL" ELSE st.err
            hdr == HdrBytes(r.l_features, r.cksum, r.lsomss)
                      \o <<st.bufs % 256, st.bufs \div 256>>
        IN  [RxPush([popped EXCEPT !.avail = st.avail,
                                   !.vr_cur_aidx = st.aidx,
                                   !.mem = MemWrite(st.mem, chain.cookie, 1, 0, hdr)],
                    uelem)
               EXCEPT !.err = err]

\* The frame goes to a ring with mergeable buffers
RxRecvMerged ==
    /\ rx.pc = "recv" /\ "MRG_RXBUF" \in rx.l_features
    /\ \E junk \in UninitElems :
         rx' = [viona_recv_merged(rx, rx.mp, rx.size, junk) EXCEPT !.pc = "done"]
    /\ RxStep

\* A running RX ring with some chains posted by the guest, the avail index
\* anywhere in its 16 bits
InitRx ==
    /\ \E features \in RxFeatures :
       \E n \in 0..MaxRxChains :
       \E chains \in [1..n -> ChainShapes] :
       \E aidx \in {0, IdxMod - 1} :
         rx = RxRing(features, chains, aidx)
    /\ ss = SsIdle
    /\ ring = InitRing("RX")
    /\ vr_lock = "free" /\ vr_cv = {}
    /\ wk = [pc |-> "none", bail |-> FALSE, renew |-> FALSE, ntx |-> 0, ret |-> "init"]
    /\ ctl = CtlIdle
    /\ rxcb = [pc |-> "idle"]
    /\ nic = [inflight |-> 0, pc |-> "idle"]
    /\ link = [l_destroyed |-> FALSE, l_force_tx_copy |-> TRUE,
               l_notify_ioport |-> FALSE]
    /\ guest = [avail_idx |-> 0, used_flags |-> {}]
    /\ proc = [exiting |-> FALSE]
    /\ panic = "none"
    /\ pop = PopIdle
    /\ tx = TxIdle
    /\ used = UsedIdle

NextRx ==
    \/ RxArrive
    \/ RxPad
    \/ RxPadFail
    \/ RxRecvPlain
    \/ RxRecvMerged

SpecRx == InitRx /\ [][NextRx]_vars

\* The used entries the last receive pushed
NewUsed(r) == SubSeq(r.used, Len(r.used) - r.npushed + 1, Len(r.used))

\* The guest memory an entry of the used ring covers: the first len bytes
\* of its chain
Covered(r, e) ==
    LET all == Flat(r.mem[e.id]) IN SubSeq(all, 1, MIN(e.len, Len(all)))

RECURSIVE CoveredAll(_, _)
CoveredAll(r, elems) ==
    IF elems = << >> THEN << >>
    ELSE Covered(r, Head(elems)) \o CoveredAll(r, Tail(elems))

RECURSIVE SumUsed(_)
SumUsed(elems) == IF elems = << >> THEN 0 ELSE Head(elems).len + SumUsed(Tail(elems))

\* The frame as the guest must see it: its bytes, zero-padded to 60
Padded(frame) ==
    frame \o Zeros(IF Len(frame) < MIN_BUF_SIZE THEN MIN_BUF_SIZE - Len(frame) ELSE 0)

\* C19: a frame that viona_recv_plain() delivers takes one chain off the
\* avail ring and adds one used entry, with that chain's cookie and length
\* 10 + max(frame length, 60); the chain holds the 10-byte header (zero
\* unless a checksum or GSO flag applies), then the bytes of the frame and
\* zeros up to 60 bytes; cur_aidx and used_idx advance by one.
PlainLayout ==
    [][(rx.pc = "recv" /\ "MRG_RXBUF" \notin rx.l_features
        /\ rx'.pc = "done" /\ rx'.err = "0") =>
          /\ rx.avail # << >> /\ rx'.avail = Tail(rx.avail)
          /\ rx'.vr_cur_aidx = (rx.vr_cur_aidx + 1) % IdxMod
          /\ rx'.used_idx = (rx.used_idx + 1) % IdxMod
          /\ rx'.used = Append(rx.used,
                 [id |-> Head(rx.avail).cookie,
                  len |-> 10 + MAX(Len(rx.frame), 60)])
          /\ LET buf == Flat(rx'.mem[Head(rx.avail).cookie])
                 plainhdr == 
                    ("GUEST_CSUM" \notin rx.l_features \/ rx.cksum = {})
             IN  /\ Len(buf) >= 10 + MAX(Len(rx.frame), 60)
                 /\ plainhdr => SubSeq(buf, 1, 10) = Zeros(10)
                 /\ SubSeq(buf, 11, 10 + MAX(Len(rx.frame), 60))
                       = Padded(rx.frame)
                 /\ rx.size >= 60
          /\ \A c \in DOMAIN rx.mem :
                c # Head(rx.avail).cookie => rx'.mem[c] = rx.mem[c]]_vars

\* C19 witness: a 42-byte ARP request in two mblks was delivered into a
\* chain of a 10-byte and a 60-byte segment, as the last of the 16-bit
\* avail index
PlainLayoutWitness ==
    /\ rx.pc = "done" /\ rx.err = "0" /\ "MRG_RXBUF" \notin rx.l_features
    /\ Len(rx.frame) = 42 /\ Len(rx.mp) = 3
    /\ rx.used = << [id |-> 0, len |-> 70] >>
    /\ Len(rx.mem[0]) = 2 /\ Len(rx.mem[0][1]) = 10
    /\ Flat(rx.mem[0]) = Zeros(10) \o rx.frame \o Zeros(18)
    /\ rx.vr_cur_aidx = 0 /\ rx.used_idx = 0

\* C20: whenever viona_recv_merged() returns 0 for a frame of msz bytes,
\* the lengths of the used entries it pushed sum to 12 + msz, and the guest
\* memory those entries cover, after the 12-byte header, is the frame:
\* every byte once and in order.
MergedLayout ==
    [][(rx.pc = "recv" /\ "MRG_RXBUF" \in rx.l_features
        /\ rx'.pc = "done" /\ rx'.err = "0") =>
          /\ SumUsed(NewUsed(rx')) = 12 + rx.size
          /\ \A k \in 1..rx'.npushed :
                NewUsed(rx')[k].len <= Len(Flat(rx'.mem[NewUsed(rx')[k].id]))
          /\ LET buf == CoveredAll(rx', NewUsed(rx'))
             IN  SubSeq(buf, 13, Len(buf)) = Padded(rx.frame)]_vars

\* With chains of one segment each, a frame delivered into mergeable
\* buffers is laid out as it should be
MergedLayoutOneSeg ==
    [][(rx.pc = "recv" /\ "MRG_RXBUF" \in rx.l_features
        /\ rx'.pc = "done" /\ rx'.err = "0"
        /\ \A k \in 1..Len(rx.avail) : Len(rx.avail[k].segs) = 1) =>
          /\ SumUsed(NewUsed(rx')) = 12 + rx.size
          /\ LET buf == CoveredAll(rx', NewUsed(rx'))
             IN  SubSeq(buf, 13, Len(buf)) = Padded(rx.frame)]_vars

\* C34: viona_recv_merged() pushes one used entry for every chain it
\* popped for the frame, in the order popped and each with the cookie of
\* its chain, whatever it returns; they are at most VTNET_MAXSEGS, and as
\* many as the 16-bit count of buffers in the header of the first chain
\* (where that chain has room for the header).
MergedCookies ==
    [][(rx.pc = "recv" /\ "MRG_RXBUF" \in rx.l_features /\ rx'.pc = "done") =>
          LET k == Len(rx.avail) - Len(rx'.avail)
          IN  /\ rx'.npushed = k
              /\ k <= VTNET_MAXSEGS
              /\ rx'.avail = SubSeq(rx.avail, k + 1, Len(rx.avail))
              /\ \A j \in 1..k : NewUsed(rx')[j].id = rx.avail[j].cookie
              /\ (k >= 1 /\ Head(rx.avail).segs[1] >= MrgHdrSz) =>
                    LET buf == Flat(rx'.mem[Head(rx.avail).cookie])
                    IN  buf[11] + 256 * buf[12] = k]_vars


\* The length of used entry j of a receive against the room in the chain
\* popped j-th
WithinChain(r, r2, j) ==
    NewUsed(r2)[j].len <= SumLens(r.avail[j].segs)

\* A frame that viona_recv_plain() delivers reports no more than its chain
\* holds
UsedWithinChainOk ==
    [][(rx.pc = "recv" /\ rx'.pc = "done" /\ rx'.err = "0"
        /\ "MRG_RXBUF" \notin rx.l_features) =>
          \A j \in 1..rx'.npushed :
              j <= Len(rx.avail) - Len(rx'.avail) => WithinChain(rx, rx', j)]_vars

\* C40: the length of a used entry for an RX chain is never more than the
\* bytes the segments of that chain hold, when the frame is delivered and
\* on every error exit of viona_recv_plain() and viona_recv_merged(): a
\* first segment shorter than the header, a frame that does not fit.
UsedWithinChain ==
    [][(rx.pc = "recv" /\ rx'.pc = "done") =>
          \A j \in 1..rx'.npushed :
              j <= Len(rx.avail) - Len(rx'.avail) => WithinChain(rx, rx', j)]_vars

----------------------------------------------------------------------------
(* Interrupt delivery: viona_intr_ring() called on one ring from several    *)
(* contexts at once (RX callbacks on the RX ring; the worker and the NIC's  *)
(* completions on the TX ring), while the control thread runs               *)
(* VNA_IOC_RING_SET_MSI and VNA_IOC_RING_INTR_CLEAR.  vr_msi_addr is read   *)
(* and written under vr_lock, each in one step; vr_intr_enabled is touched  *)
(* without it.  ss.edges counts the changes of vr_intr_enabled from 0 to 1, *)
(* ss.wakes the calls of pollwakeup(), ss.msis those of vmm_drv_msi().      *)

\* Calls of viona_intr_ring() in one behaviour.
MaxRaises == 4

\* The contexts that raise interrupts on the ring concurrently
IntrCallers == {"c1", "c2", "c3"}

\* The MSI addresses user space may set; 0 means none
MsiAddrs == {0, 1}

\* Contrast for IntrEdge: a compare-and-swap that always reports success.
cas_always_won(old) == TRUE

\* "atomic_cas_uint(&ring->vr_intr_enabled, 0, 1) == 0"
CasWon(old) == old = 0

IntrStep ==
    UNCHANGED <<ring, vr_lock, vr_cv, wk, ctl, rxcb, nic, link, guest, proc,
                panic, pop, tx, used, rx>>

\* viona_intr_ring(): mutex_enter(), "addr = ring->vr_msi_addr", mutex_exit()
IntrRead(c) ==
    /\ IntrStep
    /\ ss.raiser[c].pc = "idle"
    /\ ss.raises < MaxRaises
    /\ ss' = [ss EXCEPT !.raises = @ + 1,
                        !.raiser[c] = [pc |-> IF ss.vr_msi_addr # 0
                                            THEN "msi" ELSE "cas",
                                      addr |-> ss.vr_msi_addr]]

\* viona_intr_ring(): vmm_drv_msi(ring->vr_lease, addr, msg); return
IntrMsi(c) ==
    /\ IntrStep
    /\ ss.raiser[c].pc = "msi"
    /\ ss' = [ss EXCEPT !.msis = @ + 1,
                        !.raiser[c] = [pc |-> "idle", addr |-> 0]]

\* viona_intr_ring(): atomic_cas_uint(&ring->vr_intr_enabled, 0, 1)
IntrCas(c) ==
    /\ IntrStep
    /\ ss.raiser[c].pc = "cas"
    /\ ss' = [ss EXCEPT !.vr_intr_enabled = IF @ = 0 THEN 1 ELSE @,
                        !.edges = IF ss.vr_intr_enabled = 0 THEN @ + 1 ELSE @,
                        !.raiser[c].pc = IF CasWon(ss.vr_intr_enabled)
                                         THEN "wake" ELSE "idle"]

\* viona_intr_ring(): pollwakeup(&ring->vr_link->l_pollhead, POLLRDBAND)
IntrWake(c) ==
    /\ IntrStep
    /\ ss.raiser[c].pc = "wake"
    /\ ss' = [ss EXCEPT !.wakes = @ + 1,
                        !.raiser[c] = [pc |-> "idle", addr |-> 0]]

\* viona_ioc_ring_intr_clear(): "link->l_vrings[idx].vr_intr_enabled = 0"
IntrClear ==
    /\ IntrStep
    /\ ss' = [ss EXCEPT !.vr_intr_enabled = 0,
                        !.clears = IF ss.vr_intr_enabled = 1 THEN @ + 1 ELSE @]

\* viona_ioc_ring_set_msi(): "ring->vr_msi_addr = vrm.rm_addr" under vr_lock
IntrSetMsi ==
    /\ IntrStep
    /\ \E a \in MsiAddrs \ {ss.vr_msi_addr} : ss' = [ss EXCEPT !.vr_msi_addr = a]

\* A ring as viona_ring_alloc() leaves it (zeroed), no interrupt raised yet
InitIntr ==
    /\ ss = [vr_msi_addr |-> 0, vr_intr_enabled |-> 0,
             raiser |-> [c \in IntrCallers |-> [pc |-> "idle", addr |-> 0]],
             raises |-> 0, edges |-> 0, wakes |-> 0, msis |-> 0, clears |-> 0]
    /\ LinkRest

NextIntr ==
    \/ \E c \in IntrCallers : IntrRead(c)
    \/ \E c \in IntrCallers : IntrMsi(c)
    \/ \E c \in IntrCallers : IntrCas(c)
    \/ \E c \in IntrCallers : IntrWake(c)
    \/ IntrClear
    \/ IntrSetMsi

SpecIntr == InitIntr /\ [][NextIntr]_vars

\* The raisers that have won the compare-and-swap and not yet called
\* pollwakeup()
WakesDue == {c \in IntrCallers : ss.raiser[c].pc = "wake"}

\* C24: a raise that found no MSI address calls pollwakeup() only for a
\* change of vr_intr_enabled from 0 to 1, once per change, however the
\* raises of several contexts interleave; once VNA_IOC_RING_INTR_CLEAR has
\* put the field back to 0 the next raise changes it again and wakes again;
\* a raise that found an MSI address calls vmm_drv_msi() once and neither
\* changes vr_intr_enabled nor wakes.
IntrEdge ==
    /\ [](/\ ss.edges = ss.wakes + Cardinality(WakesDue)
          /\ ss.edges <= ss.clears + 1
          /\ ss.vr_intr_enabled = ss.edges - ss.clears)
    /\ [][\A c \in IntrCallers :
            /\ (ss.raiser[c].pc = "cas" /\ ss'.raiser[c].pc # "cas"
                /\ ss.vr_intr_enabled = 0) =>
                   /\ ss'.vr_intr_enabled = 1
                   /\ ss'.raiser[c].pc = "wake"
            /\ (ss.raiser[c].pc = "wake" /\ ss'.raiser[c].pc # "wake") =>
                   ss'.wakes = ss.wakes + 1
            /\ (ss.raiser[c].pc = "idle" /\ ss'.raiser[c].pc # "idle"
                /\ ss.vr_msi_addr # 0) => ss'.raiser[c].pc = "msi"
            /\ (ss.raiser[c].pc = "msi" /\ ss'.raiser[c].pc # "msi") =>
                   /\ ss'.msis = ss.msis + 1
                   /\ ss'.vr_intr_enabled = ss.vr_intr_enabled
                   /\ ss'.wakes = ss.wakes /\ ss'.edges = ss.edges]_vars

\* C24 witness: of four raises one found an MSI address and injected it,
\* one lost the compare-and-swap and two woke the poller, the field
\* having been cleared once in between.
IntrEdgeWitness ==
    /\ ss.raises = 4 /\ ss.msis = 1
    /\ ss.clears = 1 /\ ss.wakes = 2 /\ ss.edges = 2
    /\ \A c \in IntrCallers : ss.raiser[c].pc = "idle"

----------------------------------------------------------------------------
(* The notification handshake of the TX ring.  The worker sets NO_NOTIFY in *)
(* the used flags while it drains, clears it, and looks at the avail ring   *)
(* once more before and after taking vr_lock; the guest stores avail_idx,   *)
(* reads the used flags and writes the queue-notify ioport if NO_NOTIFY is  *)
(* clear.  Both sides fence between their store and their load              *)
(* (membar_enter() in viona_worker_tx(), the barrier virtio asks of the     *)
(* driver), so the steps interleave in program order.  guest.pc is the      *)
(* guest driver's position.                                                 *)

\* The guest stores one more chain and avail_idx
KickPublish ==
    /\ LifeStep
    /\ guest.pc = "idle"
    /\ guest.avail_idx < MaxAvail
    /\ guest' = [guest EXCEPT !.avail_idx = @ + 1, !.pc = "published"]
    /\ UNCHANGED <<ring, vr_lock, vr_cv, wk, ctl, rxcb, nic, link, proc, panic>>

\* The guest reads the used flags: it kicks unless NO_NOTIFY is set
KickReadFlags ==
    /\ LifeStep
    /\ guest.pc = "published"
    /\ guest' = [guest EXCEPT !.pc = IF "NO_NOTIFY" \in guest.used_flags
                                     THEN "idle" ELSE "kick"]
    /\ UNCHANGED <<ring, vr_lock, vr_cv, wk, ctl, rxcb, nic, link, proc, panic>>

\* The guest's write to the ioport: viona_notify_wcb() ->
\* viona_ioc_ring_kick(), the broadcast made under vr_lock
KickNotify ==
    /\ LifeStep
    /\ guest.pc = "kick"
    /\ vr_lock = "free"
    /\ LET res == viona_ioc_ring_kick(ring)
       IN  /\ ring' = res.ring
           /\ Broadcast(res.bcast)
    /\ guest' = [guest EXCEPT !.pc = "idle"]
    /\ UNCHANGED <<vr_lock, wk, ctl, rxcb, nic, link, proc, panic>>

\* A TX ring in RUN whose worker is about to start a pass of its loop
InitKick ==
    /\ \E sz \in RingSizes, zc \in BOOLEAN :
         /\ ring = [InitRing("TX") EXCEPT
                      !.vr_state = VRS_RUN, !.vr_size = sz, !.vr_mask = sz - 1,
                      !.vr_lease = "valid", !.mapped = TRUE,
                      !.vr_worker_thread = TRUE,
                      !.vr_txiov = TRUE, !.vr_txdesb = zc]
         /\ link = [l_destroyed |-> FALSE, l_force_tx_copy |-> ~zc,
                    l_notify_ioport |-> TRUE]
    /\ guest = [avail_idx |-> 0, used_flags |-> {}, pc |-> "idle"]
    /\ vr_lock = "free" /\ vr_cv = {}
    /\ wk = [pc |-> "tx_top", bail |-> FALSE, renew |-> FALSE, ntx |-> 0,
             ret |-> "run"]
    /\ ctl = CtlIdle
    /\ rxcb = [pc |-> "idle"]
    /\ nic = [inflight |-> 0, pc |-> "idle"]
    /\ proc = [exiting |-> FALSE]
    /\ panic = "none"
    /\ pop = PopIdle
    /\ ss = SsIdle
    /\ rx = RxIdle
    /\ tx = TxIdle
    /\ used = UsedIdle

NextKick ==
    \/ WorkerTxTop
    \/ WorkerTxDrain
    \/ WorkerTxZeroCopy
    \/ WorkerTxAfter
    \/ WorkerTxCheck
    \/ WorkerTxLock
    \/ WorkerTxSleep
    \/ WorkerTxWake
    \/ NicReleasePush
    \/ NicReleaseDone
    \/ KickPublish
    \/ KickReadFlags
    \/ KickNotify

SpecKick == InitKick /\ [][NextKick]_vars

\* The worker sleeps in cv_wait_sig() of viona_worker_tx()
TxAsleep == wk.pc = "tx_wait" /\ "worker" \in vr_cv

\* C27: the TX worker is never asleep with a published chain pending unless
\* the guest's kick for it is still to come: either the guest is about to
\* write the ioport, or it is about to read used flags that have NO_NOTIFY
\* clear; and the kick, once made, ends the sleep.
NoLostKick ==
    /\ [](TxAsleep /\ viona_vr_num_avail # 0 =>
            \/ guest.pc = "kick"
            \/ guest.pc = "published" /\ "NO_NOTIFY" \notin guest.used_flags)
    /\ [][guest.pc = "kick" /\ guest'.pc = "idle" => ~TxAsleep']_vars

\* C27 witness: the worker went to sleep on an empty ring with NO_NOTIFY
\* clear; the guest then published a chain, read the flags and is about
\* to kick.
NoLostKickWitness ==
    /\ TxAsleep /\ viona_vr_num_avail # 0
    /\ guest.pc = "kick"

----------------------------------------------------------------------------
(* The TX worker and chains the parser refuses.  guest.bad holds the avail  *)
(* indices at which the guest has posted a chain that vq_popchain() cannot  *)
(* parse (a descriptor of length 0, an address outside guest memory, a      *)
(* loop, ...); what the parser makes of a chain depends on guest memory     *)
(* alone, so it refuses such a chain every time it looks at it, unless the  *)
(* guest rewrites it, which nothing obliges it to do.  The ring copies      *)
(* every frame (no reclamation records), the lease does not expire and      *)
(* nobody asks the ring to stop.                                            *)

\* The guest stores one more chain, well-formed or not, and avail_idx
StallPublish ==
    /\ LifeStep
    /\ guest.pc = "idle"
    /\ guest.avail_idx < MaxAvail
    /\ \E malformed \in BOOLEAN :
         guest' = [guest EXCEPT !.avail_idx = @ + 1, !.pc = "published",
                                !.bad = IF malformed
                                        THEN @ \cup {guest.avail_idx} ELSE @]
    /\ UNCHANGED <<ring, vr_lock, vr_cv, wk, ctl, rxcb, nic, link, proc, panic>>

\* viona_worker_tx(): "while (viona_vr_num_avail(ring))" and one viona_tx():
\* vq_popchain() either bails out, leaving vr_cur_aidx where it is, and
\* viona_tx() returns, or returns the chain, vr_cur_aidx advanced, and
\* viona_tx() completes it
WorkerTxParse ==
    /\ LifeStep
    /\ wk.pc = "tx_drain"
    /\ IF viona_vr_num_avail = 0
       THEN /\ wk' = [wk EXCEPT !.pc = "tx_after"]
            /\ UNCHANGED ring
       ELSE /\ wk' = AfterTx(wk)
            /\ ring' = IF ring.vr_cur_aidx \in guest.bad THEN ring
                       ELSE [ring EXCEPT !.vr_cur_aidx = (@ + 1) % IdxMod]
    /\ UNCHANGED <<vr_lock, vr_cv, ctl, rxcb, nic, link, guest, proc, panic>>

\* A TX ring in RUN whose worker is about to start a pass of its loop,
\* nothing posted yet
InitStall ==
    /\ \E sz \in RingSizes :
         ring = [InitRing("TX") EXCEPT
                   !.vr_state = VRS_RUN, !.vr_size = sz, !.vr_mask = sz - 1,
                   !.vr_lease = "valid", !.mapped = TRUE,
                   !.vr_worker_thread = TRUE, !.vr_txiov = TRUE]
    /\ link = [l_destroyed |-> FALSE, l_force_tx_copy |-> TRUE,
               l_notify_ioport |-> TRUE]
    /\ guest = [avail_idx |-> 0, used_flags |-> {}, pc |-> "idle", bad |-> {}]
    /\ vr_lock = "free" /\ vr_cv = {}
    /\ wk = [pc |-> "tx_top", bail |-> FALSE, renew |-> FALSE, ntx |-> 0,
             ret |-> "run"]
    /\ ctl = CtlIdle
    /\ rxcb = [pc |-> "idle"]
    /\ nic = [inflight |-> 0, pc |-> "idle"]
    /\ proc = [exiting |-> FALSE]
    /\ panic = "none"
    /\ pop = PopIdle
    /\ ss = SsIdle
    /\ rx = RxIdle
    /\ tx = TxIdle
    /\ used = UsedIdle

NextStall ==
    \/ WorkerTxTop
    \/ WorkerTxParse
    \/ WorkerTxAfter
    \/ WorkerTxCheck
    \/ WorkerTxLock
    \/ WorkerTxSleep
    \/ WorkerTxWake
    \/ StallPublish
    \/ KickReadFlags
    \/ KickNotify

\* Scheduling: a runnable worker eventually runs, and a guest that has
\* published a chain goes on to read the flags and to kick.  The guest is
\* under no obligation to publish.
SpecStall ==
    /\ InitStall /\ [][NextStall]_vars
    /\ WF_vars(WorkerTxTop \/ WorkerTxParse \/ WorkerTxAfter \/ WorkerTxCheck
                  \/ WorkerTxLock \/ WorkerTxSleep \/ WorkerTxWake)
    /\ WF_vars(KickReadFlags \/ KickNotify)

\* A chain the parser refuses is the next the worker will look at
BadHead == viona_vr_num_avail # 0 /\ ring.vr_cur_aidx \in guest.bad

\* A well-formed chain at the head of the avail ring is popped in the end
GoodHeadPopped ==
    \A n \in 0..(MaxAvail - 1) :
        (ring.vr_cur_aidx = n /\ guest.avail_idx > n /\ n \notin guest.bad)
            ~> (ring.vr_cur_aidx = n + 1)

\* C35: a chain the parser refuses does not stay at the head of the TX
\* avail ring: the worker gets past it, pops every chain posted behind it
\* and goes back to sleep on vr_cv.
MalformedDropped ==
    /\ BadHead ~> ~BadHead
    /\ BadHead ~> (TxAsleep /\ viona_vr_num_avail = 0)

----------------------------------------------------------------------------
(* One pass of viona_rx_common() over a chain of frames handed up by MAC:   *)
(* each frame is dropped by the hook, or padded and copied into guest       *)
(* buffers; the pass stops early when the avail ring is empty; the guest is *)
(* notified once the loop is left.  rx.batch holds the frames still to be   *)
(* looked at, rx.nrx counts those delivered, rx.intrs the calls of          *)
(* viona_intr_ring().                                                       *)

\* Frames in the chain MAC hands to one call of viona_rx_common().
MaxBatch == 3

\* The frames of a batch: in one mblk and in two
BatchFrames == {<<42>>, <<14, 50>>}

\* The chains the guest has posted: large enough for a frame, or too small
BatchChains == {<<72>>, <<5>>}

\* A first chain with room for the header alone followed by more one-byte
\* chains than viona_recv_merged() will merge
TinyChains ==
    [k \in 1..(VTNET_MAXSEGS + 2) |-> IF k = 1 THEN <<MrgHdrSz>> ELSE <<1>>]

\* Contrast for BatchEnospc: a pass that goes on after ENOSPC.
rx_batch_never_stops(err) == FALSE

\* viona_rx_common(): "if (err == ENOSPC) { mp->b_next = next; break; }"
rx_batch_stops(err) == err = "ENOSPC"

\* Contrast for BatchIntr: a pass that notifies whatever the guest asked.
rx_intr_always(flags) == TRUE

\* viona_rx_common(): "(*ring->vr_avail_flags & VRING_AVAIL_F_NO_INTERRUPT)
\* == 0"
rx_intr_wanted(flags) == "NO_INTERRUPT" \notin flags

\* MAC calls viona_rx_common() with a chain of frames
RxBatchBegin ==
    /\ rx.pc = "idle"
    /\ \E n \in 1..MaxBatch : \E b \in [1..n -> BatchFrames] :
         rx' = [rx EXCEPT !.pc = "next", !.batch = b]
    /\ RxStep

\* viona_rx_common(): "while (mp != NULL)": the next frame is unlinked; the
\* hook may drop it
RxBatchNext ==
    /\ rx.pc = "next"
    /\ IF rx.batch = << >>
       THEN rx' = [rx EXCEPT !.pc = "tail"]
       ELSE \/ rx' = [rx EXCEPT !.pc = "common", !.batch = Tail(@),
                                !.mp = MkFrame(Head(rx.batch), 0),
                                !.frame = Flat(MkFrame(Head(rx.batch), 0)),
                                !.cksum = {}, !.size = 0, !.err = "none",
                                !.npushed = 0, !.nframes = @ + 1]
            \/ rx' = [rx EXCEPT !.batch = Tail(@), !.nframes = @ + 1]
    /\ RxStep

\* viona_rx_common(): pad_drop: the frame joins the dropped or the
\* delivered frames; ENOSPC ends the pass
RxBatchAfter ==
    /\ rx.pc = "done"
    /\ rx' = IF rx.err = "0"
             THEN [rx EXCEPT !.pc = "next", !.nrx = @ + 1]
             ELSE [rx EXCEPT !.pc = IF rx_batch_stops(rx.err) THEN "tail"
                                    ELSE "next"]
    /\ RxStep

\* viona_rx_common(): after the loop: membar_enter(), then viona_intr_ring()
\* unless the guest has set NO_INTERRUPT
RxBatchTail ==
    /\ rx.pc = "tail"
    /\ rx' = [rx EXCEPT !.pc = "end",
                        !.intrs = IF rx_intr_wanted(rx.avail_flags)
                                  THEN @ + 1 ELSE @]
    /\ RxStep

\* A running RX ring with some chains posted (or, with mergeable buffers,
\* the many tiny ones), the guest's avail flags with NO_INTERRUPT set or
\* clear
InitBatch ==
    /\ \E features \in SUBSET {"MRG_RXBUF"} :
       \E n \in 0..MaxRxChains :
       \E chains \in [1..n -> BatchChains] \cup
                      (IF "MRG_RXBUF" \in features THEN {TinyChains} ELSE {}) :
       \E af \in SUBSET {"NO_INTERRUPT"} :
         rx = [batch |-> << >>, nrx |-> 0, intrs |-> 0, avail_flags |-> af]
                 @@ RxRing(features, chains, 0)
    /\ ss = SsIdle
    /\ ring = InitRing("RX")
    /\ vr_lock = "free" /\ vr_cv = {}
    /\ wk = [pc |-> "none", bail |-> FALSE, renew |-> FALSE, ntx |-> 0, ret |-> "init"]
    /\ ctl = CtlIdle
    /\ rxcb = [pc |-> "idle"]
    /\ nic = [inflight |-> 0, pc |-> "idle"]
    /\ link = [l_destroyed |-> FALSE, l_force_tx_copy |-> TRUE,
               l_notify_ioport |-> FALSE]
    /\ guest = [avail_idx |-> 0, used_flags |-> {}]
    /\ proc = [exiting |-> FALSE]
    /\ panic = "none"
    /\ pop = PopIdle
    /\ tx = TxIdle
    /\ used = UsedIdle

NextBatch ==
    \/ RxBatchBegin
    \/ RxBatchNext
    \/ RxPad
    \/ RxPadFail
    \/ RxRecvPlain
    \/ RxRecvMerged
    \/ RxBatchAfter
    \/ RxBatchTail

SpecBatch == InitBatch /\ [][NextBatch]_vars

\* C22: a pass of viona_rx_common() raises no interrupt before it has left
\* its loop, and a pass that delivered at least one frame has raised exactly
\* one when the guest's avail flags have NO_INTERRUPT clear and none when
\* it is set, however many frames were delivered.
BatchIntr ==
    /\ rx.pc # "end" => rx.intrs = 0
    /\ (rx.pc = "end" /\ rx.nrx >= 1) =>
          rx.intrs = IF "NO_INTERRUPT" \in rx.avail_flags THEN 0 ELSE 1

\* C22 witness: a batch of three frames, two delivered into the two posted
\* chains, the third dropped for want of a chain; one interrupt.
BatchIntrWitness ==
    /\ rx.pc = "end" /\ rx.nrx = 2 /\ rx.nframes = 3
    /\ rx.err = "ENOSPC" /\ Len(rx.used) = 2
    /\ rx.intrs = 1

\* C33: a frame for which no chain could be popped (ENOSPC) leaves the used
\* ring and cur_aidx as they were and ends the pass: the frames after it
\* stay in the chain MAC handed over, and nothing is popped or pushed from
\* then on.  After any other error of a frame (EINVAL, EMSGSIZE, EOVERFLOW,
\* no memory for the padding) and after a drop by the hook the loop goes on
\* to the next frame.  Only ENOSPC leaves frames unlooked at.
BatchEnospc ==
    /\ [](/\ (rx.pc \in {"tail", "end"} /\ rx.batch # << >>) =>
               rx.err = "ENOSPC"
          /\ (rx.pc = "done" /\ rx.err = "ENOSPC") => rx.npushed = 0)
    /\ [][/\ (rx.pc = "recv" /\ rx'.err = "ENOSPC") =>
               /\ rx.avail = << >>
               /\ rx'.used = rx.used /\ rx'.vr_cur_aidx = rx.vr_cur_aidx
          /\ (rx.pc = "done" /\ rx.err = "ENOSPC") =>
               rx'.pc = "tail" /\ rx'.batch = rx.batch
          /\ (rx.pc \in {"tail", "end"}) =>
               /\ rx'.batch = rx.batch /\ rx'.used = rx.used
               /\ rx'.avail = rx.avail /\ rx'.vr_cur_aidx = rx.vr_cur_aidx
               /\ rx'.nframes = rx.nframes
          /\ (rx.pc = "done" /\ rx.err \notin {"0", "ENOSPC"}) =>
               rx'.pc = "next" /\ rx'.batch = rx.batch /\ rx'.nrx = rx.nrx
          /\ (rx.pc = "next" /\ rx.batch # << >>) =>
               /\ rx'.pc \in {"next", "common"}
               /\ rx'.batch = Tail(rx.batch)
               /\ rx'.nframes = rx.nframes + 1]_vars

\* C33 witness: of a batch of three frames the first was refused EINVAL
\* by the one posted chain, too small for the header, which was returned;
\* the second found the avail ring empty; the third was never looked at.
BatchEnospcWitness ==
    /\ rx.pc = "end" /\ rx.err = "ENOSPC"
    /\ rx.nframes = 2 /\ Len(rx.batch) = 1
    /\ rx.nrx = 0 /\ Len(rx.used) = 1 /\ rx.avail = << >>

\* The pass went on after a frame that needed more buffers than are merged
BatchOverflowWitness ==
    /\ rx.pc = "done" /\ rx.err = "EINVAL" /\ rx.nframes = 2
    /\ Len(rx.used) = VTNET_MAXSEGS + 1

----------------------------------------------------------------------------
(* Large receive: a frame that MAC passes up unsegmented (HW_LSO, from a    *)
(* sender on the same machine) to a ring with mergeable buffers, the guest  *)
(* having posted buffers of one 1526-byte descriptor each.  Without         *)
(* GUEST_TSO4 mac_hw_emul() has split such a frame before the receive loop, *)
(* so only frames of at most 1514 bytes arrive.                             *)

\* The mblk lengths of the frames: a full-size frame, a 5000-byte frame in
\* one mblk and in two
LsoFrames == {<<1514>>, <<5000>>, <<2000, 3000>>}

\* DB_LSOMSS() of a frame that carries HW_LSO
LsoSizes == {1448}

\* Buffers the guest has posted at most, each <<1526>>
LsoChains == 0..4

\* MAC calls viona_rx_common() with one frame
RxLsoArrive ==
    /\ rx.pc = "idle" /\ rx.nframes < MaxRxFrames
    /\ \E lens \in LsoFrames, mss \in LsoSizes :
       \E fl \in SUBSET {"HCK_FULLCKSUM_OK", "HW_LSO"} :
         /\ "HW_LSO" \in fl <=> SumLens(lens) > 1514
         /\ "HW_LSO" \in fl => "GUEST_TSO4" \in rx.l_features
         /\ rx' = [rx EXCEPT !.pc = "common", !.mp = MkFrame(lens, 0),
                             !.frame = Flat(MkFrame(lens, 0)),
                             !.cksum = fl, !.lsomss = mss,
                             !.size = 0, !.err = "none",
                             !.npushed = 0, !.nframes = @ + 1]
    /\ RxStep

\* A running RX ring with mergeable buffers and some 1526-byte buffers
\* posted
InitLso ==
    /\ \E features \in {f \in RxFeatures : "MRG_RXBUF" \in f} :
       \E n \in LsoChains :
         rx = RxRing(features, [k \in 1..n |-> <<1526>>], 0)
    /\ ss = SsIdle
    /\ ring = InitRing("RX")
    /\ vr_lock = "free" /\ vr_cv = {}
    /\ wk = [pc |-> "none", bail |-> FALSE, renew |-> FALSE, ntx |-> 0, ret |-> "init"]
    /\ ctl = CtlIdle
    /\ rxcb = [pc |-> "idle"]
    /\ nic = [inflight |-> 0, pc |-> "idle"]
    /\ link = [l_destroyed |-> FALSE, l_force_tx_copy |-> TRUE,
               l_notify_ioport |-> FALSE]
    /\ guest = [avail_idx |-> 0, used_flags |-> {}]
    /\ proc = [exiting |-> FALSE]
    /\ panic = "none"
    /\ pop = PopIdle
    /\ tx = TxIdle
    /\ used = UsedIdle

NextLso ==
    \/ RxLsoArrive
    \/ RxPad
    \/ RxRecvMerged

SpecLso == InitLso /\ [][NextLso]_vars

\* A 5000-byte frame with HW_LSO and an MSS of 1448 is about to be copied
\* into four posted buffers of 1526 bytes
LsoCase ==
    /\ rx.pc = "recv" /\ rx.size = 5000 /\ "HW_LSO" \in rx.cksum
    /\ rx.lsomss = 1448
    /\ {"MRG_RXBUF", "GUEST_TSO4"} \subseteq rx.l_features
    /\ Len(rx.avail) = 4

\* The header in the first buffer: gso_type TCPV4, gso_size 1448
LsoHeader(r) ==
    LET hdr == SubSeq(Flat(r.mem[0]), 1, MrgHdrSz)
    IN  /\ hdr[2] = VIRTIO_NET_HDR_GSO_TCPV4
        /\ hdr[5] + 256 * hdr[6] = 1448

\* The 16-bit count of buffers in the header of the first buffer
LsoBufs(r) ==
    LET hdr == SubSeq(Flat(r.mem[0]), 1, MrgHdrSz)
    IN  hdr[11] + 256 * hdr[12]

\* C21, as stated: the frame takes three used entries, bufs = 3 is written
\* to the header of the first buffer with gso_type = TCPV4 and gso_size =
\* 1448, and the used lengths total 5012.
LsoThreeBufs ==
    [][(LsoCase /\ rx'.pc = "done") =>
          /\ rx'.err = "0"
          /\ rx'.npushed = 3
          /\ LsoBufs(rx') = 3
          /\ LsoHeader(rx')
          /\ SumUsed(NewUsed(rx')) = 5012]_vars

\* C21, amended: the frame takes all four buffers -- used entries of 1526,
\* 1526, 1526 and 434 bytes, 5012 in total, for the cookies in the order
\* posted --, bufs = 4 is written with gso_type = TCPV4 and gso_size =
\* 1448, and the buffers hold the header followed by the 5000 bytes of the
\* frame.
LsoMerged ==
    [][(LsoCase /\ rx'.pc = "done") =>
          /\ rx'.err = "0"
          /\ NewUsed(rx') = << [id |-> 0, len |-> 1526], [id |-> 1, len |-> 1526],
                               [id |-> 2, len |-> 1526], [id |-> 3, len |-> 434] >>
          /\ rx'.avail = << >>
          /\ LsoBufs(rx') = 4
          /\ LsoHeader(rx')
          /\ SumUsed(NewUsed(rx')) = 5012
          /\ LET buf == CoveredAll(rx', NewUsed(rx'))
             IN  SubSeq(buf, MrgHdrSz + 1, Len(buf)) = rx.frame]_vars

\* C21 witness: the 5000-byte frame was delivered, the fourth buffer
\* holding its last 434 bytes.
LsoMergedWitness ==
    /\ rx.pc = "done" /\ rx.err = "0" /\ rx.size = 5000
    /\ "HW_LSO" \in rx.cksum /\ rx.lsomss = 1448
    /\ Len(rx.used) = 4 /\ rx.used[4] = [id |-> 3, len |-> 434]
    /\ rx.avail = << >>

----------------------------------------------------------------------------
(* The three locks of a ring, vr_lock, vr_a_mutex and vr_u_mutex, and the   *)
(* threads that take them: the worker (wk), a MAC RX callback in            *)
(* viona_rx_common() (rxcb), a thread of the NIC releasing a transmitted    *)
(* frame in viona_desb_release() (nic) and a thread in                      *)
(* viona_ioc_ring_kick() (ctl).  vr_lock holds the owner of vr_lock,        *)
(* pop.mutex the owner of vr_a_mutex, used.mutex the owner of vr_u_mutex.   *)
(* Each step is one mutex_enter(), mutex_exit(), cv_wait() or return from   *)
(* cv_wait() of the code, in the order the code performs them;              *)
(* nic.inflight counts the frames mac_tx() has and has not yet released.    *)

LockThreads == {"worker", "rxcb", "nic", "ctl"}

\* Contrast for LockOrder: a TX worker that enters its loop with vr_lock
tx_keep_lock(owner) == owner

\* viona_worker_tx(): mutex_exit(&ring->vr_lock) before the loop and at the
\* end of each iteration
tx_unlock(owner) == "free"

LockRest == UNCHANGED <<vr_cv, link, guest, proc, panic, tx, ss, rx>>

\* viona_worker_tx(): mutex_exit(&ring->vr_lock)
LkTxUnlock ==
    /\ wk.pc = "tx_held"
    /\ vr_lock' = tx_unlock(vr_lock)
    /\ wk' = [wk EXCEPT !.pc = "tx_loop"]
    /\ LockRest /\ UNCHANGED <<ring, ctl, rxcb, nic, pop, used>>

\* viona_worker_tx(): the drain loop calls viona_tx(), or the loop is over:
\* viona_intr_ring() with NOTIFY_ON_EMPTY, then mutex_enter(&ring->vr_lock)
LkTxLoop ==
    /\ wk.pc = "tx_loop"
    /\ \/ wk' = [wk EXCEPT !.pc = "tx_pop"]
       \/ wk' = [wk EXCEPT !.pc = "intr", !.ret = "tx_lock"]
       \/ wk' = [wk EXCEPT !.pc = "tx_lock"]
    /\ LockRest /\ UNCHANGED <<ring, vr_lock, ctl, rxcb, nic, pop, used>>

\* viona_tx(): vq_popchain(): mutex_enter(&ring->vr_a_mutex)
LkTxPop ==
    /\ wk.pc = "tx_pop"
    /\ pop.mutex = "free"
    /\ pop' = [pop EXCEPT !.mutex = "worker"]
    /\ wk' = [wk EXCEPT !.pc = "tx_pop_in"]
    /\ LockRest /\ UNCHANGED <<ring, vr_lock, ctl, rxcb, nic, used>>

\* vq_popchain(): mutex_exit(&ring->vr_a_mutex); viona_tx() returns (no
\* chain), completes the chain itself (copied or dropped), or goes on to
\* hand it to MAC by reference
LkTxPopExit ==
    /\ wk.pc = "tx_pop_in"
    /\ pop' = [pop EXCEPT !.mutex = "free"]
    /\ \/ wk' = [wk EXCEPT !.pc = "tx_loop"]
       \/ wk' = [wk EXCEPT !.pc = "push", !.ret = "tx_loop"]
       \/ /\ nic.inflight < MaxInflight
          /\ wk' = [wk EXCEPT !.pc = "tx_xfer"]
    /\ LockRest /\ UNCHANGED <<ring, vr_lock, ctl, rxcb, nic, used>>

\* viona_tx(): mutex_enter(&ring->vr_lock); ring->vr_xfer_outstanding++
LkTxXfer ==
    /\ wk.pc = "tx_xfer"
    /\ vr_lock = "free"
    /\ vr_lock' = "worker"
    /\ ring' = [ring EXCEPT !.vr_xfer_outstanding = @ + 1]
    /\ wk' = [wk EXCEPT !.pc = "tx_xfer_in"]
    /\ LockRest /\ UNCHANGED <<ctl, rxcb, nic, pop, used>>

\* viona_tx(): mutex_exit(&ring->vr_lock)
LkTxXferExit ==
    /\ wk.pc = "tx_xfer_in"
    /\ vr_lock' = "free"
    /\ wk' = [wk EXCEPT !.pc = "tx_mac"]
    /\ LockRest /\ UNCHANGED <<ring, ctl, rxcb, nic, pop, used>>

\* viona_tx(): mac_tx(): the NIC keeps the frame, or it is released before
\* mac_tx() returns, viona_desb_release() running in the worker
LkTxMac ==
    /\ wk.pc = "tx_mac"
    /\ \/ /\ nic' = [nic EXCEPT !.inflight = @ + 1]
          /\ wk' = [wk EXCEPT !.pc = "tx_loop"]
       \/ /\ wk' = [wk EXCEPT !.pc = "push", !.ret = "dec"]
          /\ UNCHANGED nic
    /\ LockRest /\ UNCHANGED <<ring, vr_lock, ctl, rxcb, pop, used>>

\* viona_tx_done(): vq_pushchain(): mutex_enter(&ring->vr_u_mutex)
LkWkPush ==
    /\ wk.pc = "push"
    /\ used.mutex = "free"
    /\ used' = [used EXCEPT !.mutex = "worker"]
    /\ wk' = [wk EXCEPT !.pc = "push_in"]
    /\ LockRest /\ UNCHANGED <<ring, vr_lock, ctl, rxcb, nic, pop>>

\* vq_pushchain(): mutex_exit(&ring->vr_u_mutex); viona_tx_done() calls
\* viona_intr_ring() unless the guest set NO_INTERRUPT
LkWkPushExit ==
    /\ wk.pc = "push_in"
    /\ used' = [used EXCEPT !.mutex = "free"]
    /\ \/ wk' = [wk EXCEPT !.pc = "intr"]
       \/ wk' = [wk EXCEPT !.pc = wk.ret]
    /\ LockRest /\ UNCHANGED <<ring, vr_lock, ctl, rxcb, nic, pop>>

\* viona_intr_ring(): mutex_enter(&ring->vr_lock)
LkWkIntr ==
    /\ wk.pc = "intr"
    /\ vr_lock = "free"
    /\ vr_lock' = "worker"
    /\ wk' = [wk EXCEPT !.pc = "intr_in"]
    /\ LockRest /\ UNCHANGED <<ring, ctl, rxcb, nic, pop, used>>

\* viona_intr_ring(): mutex_exit(&ring->vr_lock)
LkWkIntrExit ==
    /\ wk.pc = "intr_in"
    /\ vr_lock' = "free"
    /\ wk' = [wk EXCEPT !.pc = wk.ret]
    /\ LockRest /\ UNCHANGED <<ring, ctl, rxcb, nic, pop, used>>

\* viona_desb_release() in the worker: mutex_enter(&ring->vr_lock)
LkWkDec ==
    /\ wk.pc = "dec"
    /\ vr_lock = "free"
    /\ vr_lock' = "worker"
    /\ wk' = [wk EXCEPT !.pc = "dec_in"]
    /\ LockRest /\ UNCHANGED <<ring, ctl, rxcb, nic, pop, used>>

\* viona_desb_release() in the worker: --ring->vr_xfer_outstanding,
\* mutex_exit(&ring->vr_lock); mac_tx() and viona_tx() return
LkWkDecExit ==
    /\ wk.pc = "dec_in"
    /\ vr_lock' = "free"
    /\ ring' = [ring EXCEPT !.vr_xfer_outstanding = @ - 1]
    /\ wk' = [wk EXCEPT !.pc = "tx_loop"]
    /\ LockRest /\ UNCHANGED <<ctl, rxcb, nic, pop, used>>

\* viona_worker_tx(): mutex_enter(&ring->vr_lock) at the end of the loop
LkTxLock ==
    /\ wk.pc = "tx_lock"
    /\ vr_lock = "free"
    /\ vr_lock' = "worker"
    /\ wk' = [wk EXCEPT !.pc = "tx_sleep"]
    /\ LockRest /\ UNCHANGED <<ring, ctl, rxcb, nic, pop, used>>

\* viona_worker_tx(): cv_wait_sig(), or the next iteration, or the loop is
\* left with vr_lock held
LkTxSleep ==
    /\ wk.pc = "tx_sleep"
    /\ \/ /\ wk' = [wk EXCEPT !.pc = "wait", !.ret = "tx_sleep"]
          /\ vr_lock' = "free"
       \/ /\ wk' = [wk EXCEPT !.pc = "tx_held"]
          /\ UNCHANGED vr_lock
       \/ /\ wk' = [wk EXCEPT !.pc = "exit"]
          /\ UNCHANGED vr_lock
    /\ LockRest /\ UNCHANGED <<ring, ctl, rxcb, nic, pop, used>>

\* cv_wait_sig() and cv_wait() return: vr_lock is held again
LkWkWake ==
    /\ wk.pc = "wait"
    /\ vr_lock = "free"
    /\ vr_lock' = "worker"
    /\ wk' = [wk EXCEPT !.pc = wk.ret]
    /\ LockRest /\ UNCHANGED <<ring, ctl, rxcb, nic, pop, used>>

\* viona_tx_wait_outstanding() after the loop, then the cleanup block of
\* viona_worker() and its mutex_exit(&ring->vr_lock)
LkWkExit ==
    /\ wk.pc = "exit"
    /\ IF ring.idx = "RX" \/ viona_tx_wait_outstanding_done(ring)
       THEN /\ wk' = [wk EXCEPT !.pc = "gone"]
            /\ vr_lock' = "free"
       ELSE /\ wk' = [wk EXCEPT !.pc = "wait", !.ret = "exit"]
            /\ vr_lock' = "free"
    /\ LockRest /\ UNCHANGED <<ring, ctl, rxcb, nic, pop, used>>

\* viona_worker_rx(): the lease has expired: mutex_exit(&ring->vr_lock)
\* before the barrier; or cv_wait_sig(); or the loop is left
LkRxLoop ==
    /\ wk.pc = "rx_held"
    /\ \/ /\ wk' = [wk EXCEPT !.pc = "rx_barrier"]
          /\ vr_lock' = "free"
       \/ /\ wk' = [wk EXCEPT !.pc = "wait", !.ret = "rx_held"]
          /\ vr_lock' = "free"
       \/ /\ wk' = [wk EXCEPT !.pc = "exit"]
          /\ UNCHANGED vr_lock
    /\ LockRest /\ UNCHANGED <<ring, ctl, rxcb, nic, pop, used>>

\* mac_rx_barrier() returns once no RX callback runs; then
\* mutex_enter(&ring->vr_lock)
LkRxBarrier ==
    /\ wk.pc = "rx_barrier"
    /\ rxcb.pc = "idle"
    /\ vr_lock = "free"
    /\ vr_lock' = "worker"
    /\ wk' = [wk EXCEPT !.pc = "rx_held"]
    /\ LockRest /\ UNCHANGED <<ring, ctl, rxcb, nic, pop, used>>

\* MAC calls viona_rx_common() with a chain of frames
LkRxcbStart ==
    /\ ring.idx = "RX"
    /\ rxcb.pc = "idle"
    /\ rxcb' = [rxcb EXCEPT !.pc = "pop"]
    /\ LockRest /\ UNCHANGED <<ring, vr_lock, wk, ctl, nic, pop, used>>

\* viona_recv_plain(), viona_recv_merged(): vq_popchain():
\* mutex_enter(&ring->vr_a_mutex)
LkRxcbPop ==
    /\ rxcb.pc = "pop"
    /\ pop.mutex = "free"
    /\ pop' = [pop EXCEPT !.mutex = "rxcb"]
    /\ rxcb' = [rxcb EXCEPT !.pc = "pop_in"]
    /\ LockRest /\ UNCHANGED <<ring, vr_lock, wk, ctl, nic, used>>

\* vq_popchain(): mutex_exit(&ring->vr_a_mutex); there was no chain, or the
\* merged layout pops another one, or the frame is pushed
LkRxcbPopExit ==
    /\ rxcb.pc = "pop_in"
    /\ pop' = [pop EXCEPT !.mutex = "free"]
    /\ \E pc \in {"next", "pop", "push"} : rxcb' = [rxcb EXCEPT !.pc = pc]
    /\ LockRest /\ UNCHANGED <<ring, vr_lock, wk, ctl, nic, used>>

\* vq_pushchain(), vq_pushchain_mrgrx(): mutex_enter(&ring->vr_u_mutex)
LkRxcbPush ==
    /\ rxcb.pc = "push"
    /\ used.mutex = "free"
    /\ used' = [used EXCEPT !.mutex = "rxcb"]
    /\ rxcb' = [rxcb EXCEPT !.pc = "push_in"]
    /\ LockRest /\ UNCHANGED <<ring, vr_lock, wk, ctl, nic, pop>>

\* mutex_exit(&ring->vr_u_mutex)
LkRxcbPushExit ==
    /\ rxcb.pc = "push_in"
    /\ used' = [used EXCEPT !.mutex = "free"]
    /\ rxcb' = [rxcb EXCEPT !.pc = "next"]
    /\ LockRest /\ UNCHANGED <<ring, vr_lock, wk, ctl, nic, pop>>

\* viona_rx_common(): the next frame of the chain; after the last one
\* viona_intr_ring() unless the guest set NO_INTERRUPT
LkRxcbNext ==
    /\ rxcb.pc = "next"
    /\ \E pc \in {"pop", "intr", "idle"} : rxcb' = [rxcb EXCEPT !.pc = pc]
    /\ LockRest /\ UNCHANGED <<ring, vr_lock, wk, ctl, nic, pop, used>>

\* viona_intr_ring(): mutex_enter(&ring->vr_lock)
LkRxcbIntr ==
    /\ rxcb.pc = "intr"
    /\ vr_lock = "free"
    /\ vr_lock' = "rxcb"
    /\ rxcb' = [rxcb EXCEPT !.pc = "intr_in"]
    /\ LockRest /\ UNCHANGED <<ring, wk, ctl, nic, pop, used>>

\* viona_intr_ring(): mutex_exit(&ring->vr_lock); viona_rx_common() returns
LkRxcbIntrExit ==
    /\ rxcb.pc = "intr_in"
    /\ vr_lock' = "free"
    /\ rxcb' = [rxcb EXCEPT !.pc = "idle"]
    /\ LockRest /\ UNCHANGED <<ring, wk, ctl, nic, pop, used>>

\* The NIC frees a transmitted frame: viona_desb_release(), the last
\* reference: viona_tx_done(): vq_pushchain(): mutex_enter(&ring->vr_u_mutex)
LkNicPush ==
    /\ nic.pc = "idle"
    /\ nic.inflight > 0
    /\ used.mutex = "free"
    /\ used' = [used EXCEPT !.mutex = "nic"]
    /\ nic' = [nic EXCEPT !.pc = "push_in"]
    /\ LockRest /\ UNCHANGED <<ring, vr_lock, wk, ctl, rxcb, pop>>

\* mutex_exit(&ring->vr_u_mutex); viona_intr_ring() unless NO_INTERRUPT
LkNicPushExit ==
    /\ nic.pc = "push_in"
    /\ used' = [used EXCEPT !.mutex = "free"]
    /\ \E pc \in {"intr", "dec"} : nic' = [nic EXCEPT !.pc = pc]
    /\ LockRest /\ UNCHANGED <<ring, vr_lock, wk, ctl, rxcb, pop>>

\* viona_intr_ring(), and then viona_desb_release():
\* mutex_enter(&ring->vr_lock)
LkNicLock ==
    /\ nic.pc \in {"intr", "dec"}
    /\ vr_lock = "free"
    /\ vr_lock' = "nic"
    /\ nic' = [nic EXCEPT !.pc = IF nic.pc = "intr" THEN "intr_in" ELSE "dec_in"]
    /\ LockRest /\ UNCHANGED <<ring, wk, ctl, rxcb, pop, used>>

\* mutex_exit(&ring->vr_lock), in viona_desb_release() after
\* --ring->vr_xfer_outstanding
LkNicUnlock ==
    /\ nic.pc \in {"intr_in", "dec_in"}
    /\ vr_lock' = "free"
    /\ IF nic.pc = "intr_in"
       THEN /\ nic' = [nic EXCEPT !.pc = "dec"]
            /\ UNCHANGED ring
       ELSE /\ nic' = [nic EXCEPT !.pc = "idle", !.inflight = @ - 1]
            /\ ring' = [ring EXCEPT !.vr_xfer_outstanding = @ - 1]
    /\ LockRest /\ UNCHANGED <<wk, ctl, rxcb, pop, used>>

\* viona_ioc_ring_kick(): mutex_enter(&ring->vr_lock)
LkKick ==
    /\ ctl.pc = "idle"
    /\ vr_lock = "free"
    /\ vr_lock' = "ctl"
    /\ ctl' = [ctl EXCEPT !.pc = "kick"]
    /\ LockRest /\ UNCHANGED <<ring, wk, rxcb, nic, pop, used>>

\* viona_ioc_ring_kick(): mutex_exit(&ring->vr_lock)
LkKickExit ==
    /\ ctl.pc = "kick"
    /\ vr_lock' = "free"
    /\ ctl' = CtlIdle
    /\ LockRest /\ UNCHANGED <<ring, wk, rxcb, nic, pop, used>>

\* viona_worker() has called viona_worker_rx() or viona_worker_tx() with
\* vr_lock held and the ring in RUN
InitLocks ==
    /\ \E idx \in {"RX", "TX"} :
         /\ ring = [InitRing(idx) EXCEPT !.vr_state = VRS_RUN,
                                         !.vr_worker_thread = TRUE,
                                         !.vr_lease = "valid",
                                         !.mapped = TRUE]
         /\ wk = [pc |-> IF idx = "RX" THEN "rx_held" ELSE "tx_held",
                  bail |-> FALSE, renew |-> FALSE, ntx |-> 0, ret |-> "none"]
    /\ vr_lock = "worker" /\ vr_cv = {}
    /\ ctl = CtlIdle
    /\ rxcb = [pc |-> "idle"]
    /\ nic = [inflight |-> 0, pc |-> "idle"]
    /\ link = [l_destroyed |-> FALSE, l_force_tx_copy |-> FALSE,
               l_notify_ioport |-> FALSE]
    /\ guest = [avail_idx |-> 0, used_flags |-> {}]
    /\ proc = [exiting |-> FALSE]
    /\ panic = "none"
    /\ pop = [mutex |-> "free"]
    /\ used = UsedIdle
    /\ tx = TxIdle
    /\ ss = SsIdle
    /\ rx = RxIdle

NextLocks ==
    \/ LkTxUnlock
    \/ LkTxLoop
    \/ LkTxPop
    \/ LkTxPopExit
    \/ LkTxXfer
    \/ LkTxXferExit
    \/ LkTxMac
    \/ LkWkPush
    \/ LkWkPushExit
    \/ LkWkIntr
    \/ LkWkIntrExit
    \/ LkWkDec
    \/ LkWkDecExit
    \/ LkTxLock
    \/ LkTxSleep
    \/ LkWkWake
    \/ LkWkExit
    \/ LkRxLoop
    \/ LkRxBarrier
    \/ LkRxcbStart
    \/ LkRxcbPop
    \/ LkRxcbPopExit
    \/ LkRxcbPush
    \/ LkRxcbPushExit
    \/ LkRxcbNext
    \/ LkRxcbIntr
    \/ LkRxcbIntrExit
    \/ LkNicPush
    \/ LkNicPushExit
    \/ LkNicLock
    \/ LkNicUnlock
    \/ LkKick
    \/ LkKickExit

SpecLocks == InitLocks /\ [][NextLocks]_vars

\* The per-ring locks thread t holds
HeldBy(t) ==
    {l \in {"vr_lock", "vr_a_mutex", "vr_u_mutex"} :
        \/ l = "vr_lock" /\ vr_lock = t
        \/ l = "vr_a_mutex" /\ pop.mutex = t
        \/ l = "vr_u_mutex" /\ used.mutex = t}

\* C37: the worker does not hold vr_lock while it is in mac_rx_barrier() or
\* in mac_tx(), and no thread holds two of vr_lock, vr_a_mutex and
\* vr_u_mutex at once: whoever is parsing (inside vr_a_mutex) or pushing
\* (inside vr_u_mutex) holds nothing else, and no step takes one of the
\* three locks while its thread holds another.
LockOrder ==
    /\ [](/\ wk.pc \in {"rx_barrier", "tx_mac"} => vr_lock # "worker"
          /\ \A t \in LockThreads : Cardinality(HeldBy(t)) <= 1
          /\ wk.pc \in {"tx_pop_in", "push_in"} => HeldBy("worker") # {"vr_lock"}
          /\ wk.pc = "wait" => HeldBy("worker") = {})
    /\ [][\A t \in LockThreads :
            HeldBy(t) # {} => HeldBy(t)' \subseteq HeldBy(t)]_vars

\* The worker parses a chain inside vr_a_mutex while the NIC's thread pushes
\* inside vr_u_mutex and an ioctl holds vr_lock, after the worker has handed
\* a frame to mac_tx()
LockOrderWitness ==
    /\ ring.idx = "TX"
    /\ wk.pc = "tx_pop_in" /\ pop.mutex = "worker"
    /\ nic.pc = "push_in" /\ used.mutex = "nic"
    /\ ctl.pc = "kick" /\ vr_lock = "ctl"
    /\ ring.vr_xfer_outstanding = 1

\* The RX worker is in mac_rx_barrier() while an RX callback parses
RxBarrierUnlocked ==
    /\ ring.idx = "RX"
    /\ wk.pc = "rx_barrier"
    /\ rxcb.pc = "pop_in" /\ pop.mutex = "rxcb"
    /\ vr_lock = "free"

====
